---- MODULE Spec2Model ----
(***************************************************************************)
(* A model of skilldock's local skill manager (src/src/skilldock/          *)
(* local_skills.py): the version comparator and requirement matcher, the   *)
(* backtracking dependency resolver, the zip extractor, and the reconciler *)
(* that installs, updates and removes package directories and persists the *)
(* manifest and the lock file.                                             *)
(*                                                                         *)
(* Strings are sequences of one-character strings, so that parsing,        *)
(* formatting and lexical comparison are computed as the code computes     *)
(* them.                                                                   *)
(***************************************************************************)
EXTENDS Integers, Sequences, FiniteSets, TLC

(***************************************************************************)
(* Characters and Python's str primitives.                                 *)
(***************************************************************************)

\* The characters of the model in code-point order (str comparison order).
CharOrder ==
    << " ", "*", "+", ",", "-", ".", "/",
       "0", "1", "2", "3", "4", "5", "6", "7", "8", "9",
       "<", "=", ">", "@",
       "A", "B", "C", "D", "E", "F", "G", "H", "I", "J", "K", "L", "M",
       "N", "O", "P", "Q", "R", "S", "T", "U", "V", "W", "X", "Y", "Z",
       "^", "_",
       "a", "b", "c", "d", "e", "f", "g", "h", "i", "j", "k", "l", "m",
       "n", "o", "p", "q", "r", "s", "t", "u", "v", "w", "x", "y", "z",
       "~" >>

\* The place of every character in CharOrder.
OrdTable ==
    [c \in {CharOrder[i] : i \in 1..Len(CharOrder)} |->
        CHOOSE i \in 1..Len(CharOrder) : CharOrder[i] = c]

Ord(c) == OrdTable[c]

Digits == {"0", "1", "2", "3", "4", "5", "6", "7", "8", "9"}

Upper ==
    {"A", "B", "C", "D", "E", "F", "G", "H", "I", "J", "K", "L", "M",
     "N", "O", "P", "Q", "R", "S", "T", "U", "V", "W", "X", "Y", "Z"}

Lower ==
    {"a", "b", "c", "d", "e", "f", "g", "h", "i", "j", "k", "l", "m",
     "n", "o", "p", "q", "r", "s", "t", "u", "v", "w", "x", "y", "z"}

AlNum == Digits \cup Upper \cup Lower

\* str.lower() of one character.
LowerChar(c) == IF c \in Upper THEN CharOrder[Ord(c) + 28] ELSE c

StrLower(s) == [i \in 1..Len(s) |-> LowerChar(s[i])]

\* A local variable: Let(v, LAMBDA x : e) is e where x holds the value v.
Let(v, F(_)) == F(v)

\* The sign of Python's str comparison: -1, 0 or 1.
RECURSIVE StrCmp(_, _)
StrCmp(a, b) ==
    IF a = <<>> THEN (IF b = <<>> THEN 0 ELSE -1)
    ELSE IF b = <<>> THEN 1
    ELSE IF a[1] = b[1] THEN StrCmp(Tail(a), Tail(b))
    ELSE IF Ord(a[1]) < Ord(b[1]) THEN -1
    ELSE 1

\* str.strip(): the only whitespace of the model is the space.
RECURSIVE LStrip(_)
LStrip(s) == IF s # <<>> /\ s[1] = " " THEN LStrip(Tail(s)) ELSE s

RECURSIVE RStrip(_)
RStrip(s) ==
    IF s # <<>> /\ s[Len(s)] = " " THEN RStrip(SubSeq(s, 1, Len(s) - 1)) ELSE s

Strip(s) == RStrip(LStrip(s))

HasChar(s, c) == \E i \in 1..Len(s) : s[i] = c

IndexOf(s, c) == CHOOSE i \in 1..Len(s) : s[i] = c /\ \A j \in 1..(i - 1) : s[j] # c

\* s.split(c, 1): the part before the first c and the part after it.
Before(s, c) == IF HasChar(s, c) THEN SubSeq(s, 1, IndexOf(s, c) - 1) ELSE s

After(s, c) == IF HasChar(s, c) THEN SubSeq(s, IndexOf(s, c) + 1, Len(s)) ELSE <<>>

\* s.split(c): every part, empty parts included.
RECURSIVE SplitOn(_, _)
SplitOn(s, c) ==
    IF HasChar(s, c) THEN <<Before(s, c)>> \o SplitOn(After(s, c), c) ELSE <<s>>

\* The non-empty elements of a sequence of strings, in order.
RECURSIVE SelectNonEmpty(_)
SelectNonEmpty(parts) ==
    IF parts = <<>> THEN <<>>
    ELSE IF parts[1] = <<>> THEN SelectNonEmpty(Tail(parts))
    ELSE <<parts[1]>> \o SelectNonEmpty(Tail(parts))

\* s.split(): the parts between runs of whitespace.
SplitWs(s) == SelectNonEmpty(SplitOn(s, " "))

StartsWith(s, p) == Len(s) >= Len(p) /\ SubSeq(s, 1, Len(p)) = p

\* str.isdigit(): non-empty and all digits.
IsDigitStr(s) == s # <<>> /\ \A i \in 1..Len(s) : s[i] \in Digits

DigitVal(c) == Ord(c) - Ord("0")

\* int(s) of a digit string.
RECURSIVE ToInt(_)
ToInt(s) ==
    IF s = <<>> THEN 0
    ELSE 10 * ToInt(SubSeq(s, 1, Len(s) - 1)) + DigitVal(s[Len(s)])

\* str(n) of a natural number.
RECURSIVE IntToStr(_)
IntToStr(n) ==
    IF n < 10 THEN <<CharOrder[Ord("0") + n]>>
    ELSE IntToStr(n \div 10) \o <<CharOrder[Ord("0") + (n % 10)]>>

\* Python's comparison of two tuples of ints: -1, 0 or 1.
RECURSIVE TupleCmp(_, _)
TupleCmp(a, b) ==
    IF a = <<>> THEN (IF b = <<>> THEN 0 ELSE -1)
    ELSE IF b = <<>> THEN 1
    ELSE IF a[1] < b[1] THEN -1
    ELSE IF a[1] > b[1] THEN 1
    ELSE TupleCmp(Tail(a), Tail(b))

(***************************************************************************)
(* The version comparator.                                                 *)
(***************************************************************************)

\* The numbers of a version as they are written, nothing appended.
PadTo3_Unpadded(nums) == nums

\* while len(nums) < 3: nums.append(0)
RECURSIVE PadTo3(_)
PadTo3(nums) == IF Len(nums) < 3 THEN PadTo3(Append(nums, 0)) ELSE nums

\* _split_version: ok = FALSE stands for ValueError.  hasPre = FALSE stands
\* for pre_parts = None.
_split_version(version) ==
    Let(Before(Strip(version), "+"), LAMBDA raw :
    Let(SplitOn(Before(raw, "-"), "."), LAMBDA main_parts :
        IF Strip(version) = <<>>
        THEN [ok |-> FALSE, nums |-> <<>>, hasPre |-> FALSE, pre |-> <<>>]
        ELSE IF \E i \in 1..Len(main_parts) : ~IsDigitStr(main_parts[i])
        THEN [ok |-> FALSE, nums |-> <<>>, hasPre |-> FALSE, pre |-> <<>>]
        ELSE [ok |-> TRUE,
              nums |-> PadTo3([i \in 1..Len(main_parts) |-> ToInt(main_parts[i])]),
              hasPre |-> HasChar(raw, "-"),
              pre |-> IF HasChar(raw, "-")
                      THEN SelectNonEmpty(SplitOn(After(raw, "-"), "."))
                      ELSE <<>>]))

\* The loop over prerelease identifiers of compare_versions, from index i.
RECURSIVE ComparePre(_, _, _)
ComparePre(pa, pb, i) ==
    IF i > Len(pa) /\ i > Len(pb) THEN 0
    ELSE IF i > Len(pa) THEN -1
    ELSE IF i > Len(pb) THEN 1
    ELSE Let(IsDigitStr(pa[i]), LAMBDA x_num :
         Let(IsDigitStr(pb[i]), LAMBDA y_num :
         Let(IF x_num /\ y_num THEN TupleCmp(<<ToInt(pa[i])>>, <<ToInt(pb[i])>>)
             ELSE StrCmp(pa[i], pb[i]), LAMBDA sign :
             IF x_num /\ ~y_num THEN -1
             ELSE IF ~x_num /\ y_num THEN 1
             ELSE IF sign # 0 THEN sign
             ELSE ComparePre(pa, pb, i + 1))))

\* compare_versions once both versions are split.
CompareSplit(a, b, sa, sb) ==
    IF ~sa.ok \/ ~sb.ok THEN StrCmp(a, b)
    ELSE IF sa.nums # sb.nums THEN TupleCmp(sa.nums, sb.nums)
    ELSE IF ~sa.hasPre /\ ~sb.hasPre THEN 0
    ELSE IF ~sa.hasPre THEN 1
    ELSE IF ~sb.hasPre THEN -1
    ELSE ComparePre(sa.pre, sb.pre, 1)

\* The version strings are split by the one call of _split_version below.
compare_versions(a, b) ==
    Let([s \in {a, b} |-> _split_version(s)], LAMBDA split :
        CompareSplit(a, b, split[a], split[b]))

(***************************************************************************)
(* The requirement matcher.                                                *)
(***************************************************************************)

Latest == <<"l", "a", "t", "e", "s", "t">>

\* normalize_requirement: an empty or blank specifier is "latest".
normalize_requirement(value) == IF Strip(value) = <<>> THEN Latest ELSE Strip(value)

\* f"{major}.{minor}.{patch}"
FormatVersion(major, minor, patch) ==
    IntToStr(major) \o <<".">> \o IntToStr(minor) \o <<".">> \o IntToStr(patch)

\* _expand_caret: ok = FALSE stands for the ValueError of _split_version.
\* The upper bound of a caret range: the next major, minor or patch version.
\* The upper bound of a caret range taken for the next major version always.
CaretUpper_NextMajor(major, minor, patch) == <<major + 1, 0, 0>>

CaretUpper(major, minor, patch) ==
    IF major > 0 THEN <<major + 1, 0, 0>>
    ELSE IF minor > 0 THEN <<0, minor + 1, 0>>
    ELSE <<0, 0, patch + 1>>

_expand_caret(spec) ==
    Let(_split_version(Strip(Tail(spec))), LAMBDA sv :
        IF ~sv.ok THEN [ok |-> FALSE, tokens |-> <<>>]
        ELSE Let(CaretUpper(sv.nums[1], sv.nums[2], sv.nums[3]), LAMBDA upper :
                 [ok |-> TRUE,
                  tokens |->
                    << <<">", "=">> \o FormatVersion(sv.nums[1], sv.nums[2], sv.nums[3]),
                       <<"<">> \o FormatVersion(upper[1], upper[2], upper[3]) >>]))

_expand_tilde(spec) ==
    Let(_split_version(Strip(Tail(spec))), LAMBDA sv :
        IF ~sv.ok THEN [ok |-> FALSE, tokens |-> <<>>]
        ELSE [ok |-> TRUE,
              tokens |->
                << <<">", "=">> \o FormatVersion(sv.nums[1], sv.nums[2], sv.nums[3]),
                   <<"<">> \o FormatVersion(sv.nums[1], sv.nums[2] + 1, 0) >>])

ReplaceCommas(s) == [i \in 1..Len(s) |-> IF s[i] = "," THEN " " ELSE s[i]]

\* The loop of _split_specifier over the tokens: the expanded tokens, or
\* ok = FALSE at the first caret or tilde token that does not parse
\* (SkilldockError "Invalid version requirement").
RECURSIVE ExpandTokens(_)
ExpandTokens(tokens) ==
    IF tokens = <<>> THEN [ok |-> TRUE, tokens |-> <<>>]
    ELSE Let(IF tokens[1][1] = "^" THEN _expand_caret(tokens[1])
             ELSE IF tokens[1][1] = "~" THEN _expand_tilde(tokens[1])
             ELSE [ok |-> TRUE, tokens |-> <<tokens[1]>>], LAMBDA head :
         Let(ExpandTokens(Tail(tokens)), LAMBDA rest :
             IF ~head.ok THEN [ok |-> FALSE, tokens |-> <<>>]
             ELSE IF ~rest.ok THEN [ok |-> FALSE, tokens |-> <<>>]
             ELSE [ok |-> TRUE, tokens |-> head.tokens \o rest.tokens]))

_split_specifier(specifier) ==
    Let(SplitWs(ReplaceCommas(Strip(specifier))), LAMBDA tokens :
        IF tokens = <<>> THEN [ok |-> TRUE, tokens |-> <<Latest>>]
        ELSE ExpandTokens(tokens))

\* _COMPARATOR_RE: the operator alternatives in the order the pattern tries
\* them; the optional group takes the first that is a prefix of the token.
ComparatorOps == << <<">", "=">>, <<"<", "=">>, <<">">>, <<"<">>, <<"=", "=">>, <<"=">> >>

\* Group 1 of _COMPARATOR_RE where the token starts with an operator, else <<>>.
ComparatorOp(token) ==
    IF \E i \in 1..Len(ComparatorOps) : StartsWith(token, ComparatorOps[i])
    THEN ComparatorOps[CHOOSE i \in 1..Len(ComparatorOps) :
                          /\ StartsWith(token, ComparatorOps[i])
                          /\ \A j \in 1..(i - 1) : ~StartsWith(token, ComparatorOps[j])]
    ELSE <<>>

\* Group 2 of _COMPARATOR_RE, after the whitespace that follows the operator
\* op (\s*).
ComparatorRhs(token, op) == LStrip(SubSeq(token, Len(op) + 1, Len(token)))

\* [0-9A-Za-z][0-9A-Za-z.\-+]*
IsComparatorRhs(s) ==
    /\ s # <<>>
    /\ s[1] \in AlNum
    /\ \A i \in 1..Len(s) : s[i] \in AlNum \cup {".", "-", "+"}

\* _COMPARATOR_RE.match(token): matched = FALSE stands for None, op is group
\* 1 or "=" and rhs is group 2.  A token that starts with an operator cannot
\* match with the optional group left empty, and no shorter operator
\* alternative leaves a version that starts with a letter or digit.
ComparatorMatch(token) ==
    Let(ComparatorOp(token), LAMBDA group1 :
    Let(ComparatorRhs(token, group1), LAMBDA group2 :
        [matched |-> IsComparatorRhs(group2),
         op |-> IF group1 = <<>> THEN <<"=">> ELSE group1,
         rhs |-> group2]))

\* The comparison the operator asks of cmp = compare_versions(version, rhs).
OpHolds(op, cmp) ==
    IF op = <<"=">> \/ op = <<"=", "=">> THEN cmp = 0
    ELSE IF op = <<">">> THEN cmp > 0
    ELSE IF op = <<">", "=">> THEN cmp >= 0
    ELSE IF op = <<"<">> THEN cmp < 0
    ELSE cmp <= 0

\* One pass of the loop of version_satisfies over one expanded token.
TokenSatisfied(version, token) ==
    IF StrLower(Strip(token)) \in {Latest, <<"*">>} THEN TRUE
    ELSE Let(ComparatorMatch(Strip(token)), LAMBDA m :
             IF ~m.matched THEN FALSE
             ELSE OpHolds(m.op, compare_versions(version, m.rhs)))

\* Whether _split_specifier(specifier) returns (TRUE) or raises (FALSE).
SpecifierParses(specifier) == _split_specifier(specifier).ok

\* The loop of version_satisfies over the expanded tokens.
AllTokensSatisfied(version, tokens) ==
    \A i \in 1..Len(tokens) : TokenSatisfied(version, tokens[i])

\* version_satisfies, for a specifier that parses.
version_satisfies(version, specifier) ==
    AllTokensSatisfied(version, _split_specifier(specifier).tokens)

\* _extract_exact_version of the single token of a specifier.
ExactOfToken(token) ==
    IF token = <<>> \/ StrLower(token) \in {Latest, <<"*">>}
    THEN [has |-> FALSE, rhs |-> <<>>]
    ELSE IF token[1] \in {"^", "~", ">", "<"} THEN [has |-> FALSE, rhs |-> <<>>]
    ELSE Let(ComparatorMatch(token), LAMBDA m :
             IF ~m.matched THEN [has |-> FALSE, rhs |-> <<>>]
             ELSE IF m.op = <<"=">> \/ m.op = <<"=", "=">>
             THEN [has |-> TRUE, rhs |-> m.rhs]
             ELSE [has |-> FALSE, rhs |-> <<>>])

\* _extract_exact_version, for a specifier that parses: has = FALSE stands
\* for None.
_extract_exact_version(specifier) ==
    Let(_split_specifier(specifier).tokens, LAMBDA tokens :
        IF Len(tokens) # 1 THEN [has |-> FALSE, rhs |-> <<>>]
        ELSE ExactOfToken(Strip(tokens[1])))

(***************************************************************************)
(* Releases, requirements and the release repository.                      *)
(*                                                                         *)
(* A key is the string "<namespace>/<slug>".  An absent optional string    *)
(* (None) is the empty string: the code tests these fields for truth.      *)
(* A dict is a sequence of [key, val] entries in insertion order.          *)
(***************************************************************************)

DirectSource == <<"d", "i", "r", "e", "c", "t">>

DependencySpec(key, version_requirement, release_version) ==
    [key |-> key, version_requirement |-> version_requirement,
     release_version |-> release_version]

SkillRelease(key, version, dependencies, download_url) ==
    [key |-> key, version |-> version, dependencies |-> dependencies,
     download_url |-> download_url]

Requirement(specifier, source) == [specifier |-> specifier, source |-> source]

NoError == [kind |-> "none", key |-> <<>>]

\* A SkilldockError: kind stands for the message's fixed text and key for
\* the package key formatted into it.
\*   "notfound"        Skill not found or not visible: <key>
\*   "listerror"       any other SkilldockError of list_releases
\*   "conflict"        Dependency conflict for <key>: multiple exact versions ...
\*   "nodownloadable"  No downloadable release found for <key> that satisfies ...
\*                     attempted per-version lookup for <versions>, ...; the
\*                     error has the field versions for these
\*   "norelease"       No release found for <key> that satisfies constraints: ...
\*   "invalidreq"      Invalid version requirement: <token>
\*   "nourl"           Release <key>@<version> has no download URL.
\*   "http"            HTTP <status>: <body>, the body matching none of the above
SkilldockError(kind, key) == [kind |-> kind, key |-> key]

\* dict helpers
DictHas(d, k) == \E i \in 1..Len(d) : d[i].key = k

DictGet(d, k) == d[CHOOSE i \in 1..Len(d) : d[i].key = k].val

DictKeys(d) == [i \in 1..Len(d) |-> d[i].key]

DictKeySet(d) == {d[i].key : i \in 1..Len(d)}

\* d[k] = v: in place when k is present, appended when it is not.
DictSet(d, k, v) ==
    IF DictHas(d, k)
    THEN [i \in 1..Len(d) |-> IF d[i].key = k THEN [key |-> k, val |-> v] ELSE d[i]]
    ELSE Append(d, [key |-> k, val |-> v])

\* d.pop(k)
RECURSIVE DictPop(_, _)
DictPop(d, k) ==
    IF d = <<>> THEN <<>>
    ELSE IF d[1].key = k THEN DictPop(Tail(d), k)
    ELSE <<d[1]>> \o DictPop(Tail(d), k)

\* constraints_map.get(key, [])
ConstraintsGet(cmap, key) == IF DictHas(cmap, key) THEN DictGet(cmap, key) ELSE <<>>

\* constraints.setdefault(key, []).append(req)
ConstraintsAppend(cmap, key, req) == DictSet(cmap, key, Append(ConstraintsGet(cmap, key), req))

SeqHas(seq, x) == \E i \in 1..Len(seq) : seq[i] = x

\* list(dict.fromkeys(seq)): the first occurrence of each element, in order.
RECURSIVE Dedupe(_)
Dedupe(seq) ==
    IF seq = <<>> THEN <<>>
    ELSE Let(Dedupe(SubSeq(seq, 1, Len(seq) - 1)), LAMBDA init :
             IF SeqHas(init, seq[Len(seq)]) THEN init ELSE Append(init, seq[Len(seq)]))

\* sorted(...) of a set of strings.
RECURSIVE SortStrings(_)
SortStrings(S) ==
    IF S = {} THEN <<>>
    ELSE Let(CHOOSE x \in S : \A y \in S : StrCmp(x, y) <= 0, LAMBDA least :
             <<least>> \o SortStrings(S \ {least}))

\* The repository a resolution runs against (the ReleaseRepository protocol).
\* repo[key] = [list, releases, byVersion]:
\*   list       "ok", "notfound" (the list endpoint answers 404) or "error"
\*              (the list endpoint fails otherwise)
\*   releases   the releases of the key, in the order the list returns them
\*   byVersion  the releases the per-version lookup knows under the exact
\*              version string asked for (a dict version -> release)
list_releases(repo, key) ==
    IF repo[key].list = "notfound"
    THEN [err |-> SkilldockError("notfound", key), releases |-> <<>>]
    ELSE IF repo[key].list = "error"
    THEN [err |-> SkilldockError("listerror", key), releases |-> <<>>]
    ELSE [err |-> NoError, releases |-> repo[key].releases]

\* get_release: found = FALSE stands for None.
get_release(repo, key, version) ==
    IF DictHas(repo[key].byVersion, version)
    THEN [found |-> TRUE, rel |-> DictGet(repo[key].byVersion, version)]
    ELSE Let({i \in 1..Len(repo[key].releases) :
                 compare_versions(repo[key].releases[i].version, version) = 0},
             LAMBDA hits :
                 IF hits = {} THEN [found |-> FALSE, rel |-> <<>>]
                 ELSE [found |-> TRUE,
                       rel |-> repo[key].releases[CHOOSE i \in hits : \A j \in hits : i <= j]])

(***************************************************************************)
(* The dependency graph resolver.                                          *)
(***************************************************************************)

\* _version_satisfies_all without its check: every version passes.
_version_satisfies_all_Unchecked(version, requirements) == "T"

\* _version_satisfies_all: all(...) stops at the first requirement that is
\* not satisfied.  "T" and "F" are its results; "E" is the SkilldockError of
\* a specifier that does not parse, met before any unsatisfied requirement.
RECURSIVE _version_satisfies_all(_, _)
_version_satisfies_all(version, requirements) ==
    IF requirements = <<>> THEN "T"
    ELSE IF ~SpecifierParses(requirements[1].specifier) THEN "E"
    ELSE IF ~version_satisfies(version, requirements[1].specifier) THEN "F"
    ELSE _version_satisfies_all(version, Tail(requirements))

_has_download_url(release) == Strip(release.download_url) # <<>>

\* _hydrate_release_from_version_lookup that takes a release of any key.
_hydrate_release_from_version_lookup_AnyKey(release, repo) ==
    IF _has_download_url(release) THEN release
    ELSE Let(get_release(repo, release.key, release.version), LAMBDA hydrated :
             IF ~hydrated.found THEN release
             ELSE IF compare_versions(hydrated.rel.version, release.version) # 0 THEN release
             ELSE hydrated.rel)

\* _hydrate_release_from_version_lookup: the release itself, or, when it has
\* no download URL, what get_release answers for its version, if that is a
\* release of the same key and of an equal version.
_hydrate_release_from_version_lookup(release, repo) ==
    IF _has_download_url(release) THEN release
    ELSE Let(get_release(repo, release.key, release.version), LAMBDA hydrated :
             IF ~hydrated.found THEN release
             ELSE IF hydrated.rel.key # release.key THEN release
             ELSE IF compare_versions(hydrated.rel.version, release.version) # 0 THEN release
             ELSE hydrated.rel)

\* sorted(releases, key=cmp_to_key(compare_versions), reverse=True): a stable
\* sort, so releases that compare equal keep the order of the list.
RECURSIVE InsertByVersionDesc(_, _)
InsertByVersionDesc(sorted, rel) ==
    IF sorted = <<>> THEN <<rel>>
    ELSE IF compare_versions(sorted[Len(sorted)].version, rel.version) >= 0
    THEN Append(sorted, rel)
    ELSE Append(InsertByVersionDesc(SubSeq(sorted, 1, Len(sorted) - 1), rel),
                sorted[Len(sorted)])

\* The releases in the order of the list, not sorted.
SortByVersionDesc_AsListed(releases) == releases

RECURSIVE SortByVersionDesc(_)
SortByVersionDesc(releases) ==
    IF releases = <<>> THEN <<>>
    ELSE InsertByVersionDesc(SortByVersionDesc(SubSeq(releases, 1, Len(releases) - 1)),
                             releases[Len(releases)])

RECURSIVE FilterSatisfying(_, _)
FilterSatisfying(releases, requirements) ==
    IF releases = <<>> THEN <<>>
    ELSE IF _version_satisfies_all(releases[1].version, requirements) = "T"
    THEN <<releases[1]>> \o FilterSatisfying(Tail(releases), requirements)
    ELSE FilterSatisfying(Tail(releases), requirements)

RECURSIVE FilterDownloadable(_)
FilterDownloadable(releases) ==
    IF releases = <<>> THEN <<>>
    ELSE IF _has_download_url(releases[1])
    THEN <<releases[1]>> \o FilterDownloadable(Tail(releases))
    ELSE FilterDownloadable(Tail(releases))

\* The exact versions the requirements pin, as the set of strings
\* _candidate_releases builds.
ExactVersions(requirements) ==
    Let([i \in 1..Len(requirements) |-> _extract_exact_version(requirements[i].specifier)],
        LAMBDA exact : {exact[i].rhs : i \in {j \in 1..Len(requirements) : exact[j].has}})

\* The exact-pin check of _candidate_releases.
HasExactConflict(requirements) == Cardinality(ExactVersions(requirements)) > 1

ExactLookup_Skipped(key, requirements, repo, exact_versions) == [found |-> FALSE, rel |-> <<>>]

\* The fast path of _candidate_releases: the release of the single exact
\* version, where the per-version lookup has it, satisfying and downloadable.
ExactLookup(key, requirements, repo, exact_versions) ==
    IF Cardinality(exact_versions) # 1 THEN [found |-> FALSE, rel |-> <<>>]
    ELSE Let(get_release(repo, key, CHOOSE v \in exact_versions : TRUE), LAMBDA rel :
             IF /\ rel.found
                /\ _version_satisfies_all(rel.rel.version, requirements) = "T"
                /\ _has_download_url(rel.rel)
             THEN rel
             ELSE [found |-> FALSE, rel |-> <<>>])

\* The versions the "No downloadable release found" message names:
\* sorted(dict.fromkeys(r.version for r in matched), ..., reverse=True).
AttemptedVersions(matched) ==
    Let(SortByVersionDesc(SelectSeq(
            [i \in 1..Len(matched) |-> [at |-> i, version |-> matched[i].version]],
            LAMBDA r : \A j \in 1..(r.at - 1) : matched[j].version # r.version)),
        LAMBDA kept : [i \in 1..Len(kept) |-> kept[i].version])

\* The list path of _candidate_releases.
ListedCandidates(key, requirements, repo) ==
    Let(list_releases(repo, key), LAMBDA listing :
    Let(FilterSatisfying(SortByVersionDesc(listing.releases), requirements), LAMBDA matched :
    Let(FilterDownloadable([i \in 1..Len(matched) |->
                               _hydrate_release_from_version_lookup(matched[i], repo)]),
        LAMBDA filtered :
            IF listing.err # NoError THEN [err |-> listing.err, rels |-> <<>>]
            ELSE IF filtered # <<>> THEN [err |-> NoError, rels |-> filtered]
            ELSE IF matched # <<>>
            THEN [err |-> [kind |-> "nodownloadable", key |-> key,
                           versions |-> AttemptedVersions(matched)],
                  rels |-> <<>>]
            ELSE [err |-> SkilldockError("norelease", key), rels |-> <<>>])))

\* _candidate_releases: err is the SkilldockError it raises, or NoError with
\* the candidates in the order they are tried.
_candidate_releases(key, requirements, repo) ==
    IF \E i \in 1..Len(requirements) : ~SpecifierParses(requirements[i].specifier)
    THEN [err |-> SkilldockError("invalidreq", key), rels |-> <<>>]
    ELSE Let(ExactVersions(requirements), LAMBDA exact_versions :
             IF Cardinality(exact_versions) > 1
             THEN [err |-> SkilldockError("conflict", key), rels |-> <<>>]
             ELSE Let(ExactLookup(key, requirements, repo, exact_versions), LAMBDA rel :
                      IF rel.found THEN [err |-> NoError, rels |-> <<rel.rel>>]
                      ELSE ListedCandidates(key, requirements, repo)))

\* The loop of _search that revisits the selected keys (in the order of the
\* dict) against their current constraints.  raise = TRUE stands for the
\* SkilldockError of a specifier that does not parse, which nothing catches.
RECURSIVE Revalidate(_, _, _, _)
Revalidate(keys, selected_mut, constraints_map, pending_mut) ==
    IF keys = <<>>
    THEN [raise |-> FALSE, selected |-> selected_mut, pending |-> pending_mut]
    ELSE Let(_version_satisfies_all(DictGet(selected_mut, keys[1]).version,
                                    ConstraintsGet(constraints_map, keys[1])),
             LAMBDA sat :
                 IF sat = "E"
                 THEN [raise |-> TRUE, selected |-> selected_mut, pending |-> pending_mut]
                 ELSE Revalidate(Tail(keys),
                                 IF sat = "T" THEN selected_mut
                                 ELSE DictPop(selected_mut, keys[1]),
                                 constraints_map,
                                 IF sat = "T" \/ SeqHas(pending_mut, keys[1]) THEN pending_mut
                                 ELSE <<keys[1]>> \o pending_mut))

\* dep_specs of one dependency edge.
DepSpecs(dep) ==
    IF dep.release_version = <<>> /\ dep.version_requirement = <<>> THEN <<Latest>>
    ELSE (IF dep.release_version # <<>>
          THEN << <<"=">> \o dep.release_version >> ELSE <<>>)
         \o (IF dep.version_requirement # <<>>
             THEN <<dep.version_requirement>> ELSE <<>>)

RECURSIVE AppendRequirements(_, _, _, _)
AppendRequirements(cmap, key, specs, source) ==
    IF specs = <<>> THEN cmap
    ELSE AppendRequirements(ConstraintsAppend(cmap, key, Requirement(specs[1], source)),
                            key, Tail(specs), source)

\* f"{key}@{candidate.version}"
SourceOf(key, version) == key \o <<"@">> \o version

\* The loop over candidate.dependencies that queues a dependency whether it
\* is selected or not.
RECURSIVE AddDependencies_Requeue(_, _, _, _, _)
AddDependencies_Requeue(deps, source, selected_next, constraints_next, pending_next) ==
    IF deps = <<>>
    THEN [raise |-> FALSE, selected |-> selected_next,
          constraints |-> constraints_next, pending |-> pending_next]
    ELSE Let(deps[1].key, LAMBDA dep_key :
         Let(AppendRequirements(constraints_next, dep_key, DepSpecs(deps[1]), source),
             LAMBDA cmap :
         Let(IF DictHas(selected_next, dep_key)
             THEN _version_satisfies_all(DictGet(selected_next, dep_key).version,
                                         DictGet(cmap, dep_key))
             ELSE "T", LAMBDA sat :
         Let(IF sat = "F" THEN DictPop(selected_next, dep_key) ELSE selected_next,
             LAMBDA sel :
                 IF sat = "E"
                 THEN [raise |-> TRUE, selected |-> selected_next,
                       constraints |-> cmap, pending |-> pending_next]
                 ELSE AddDependencies_Requeue(Tail(deps), source, sel, cmap,
                                              IF ~SeqHas(pending_next, dep_key)
                                              THEN Append(pending_next, dep_key)
                                              ELSE pending_next)))))

\* The loop of _search over candidate.dependencies.
RECURSIVE AddDependencies(_, _, _, _, _)
AddDependencies(deps, source, selected_next, constraints_next, pending_next) ==
    IF deps = <<>>
    THEN [raise |-> FALSE, selected |-> selected_next,
          constraints |-> constraints_next, pending |-> pending_next]
    ELSE Let(deps[1].key, LAMBDA dep_key :
         Let(AppendRequirements(constraints_next, dep_key, DepSpecs(deps[1]), source),
             LAMBDA cmap :
         Let(IF DictHas(selected_next, dep_key)
             THEN _version_satisfies_all(DictGet(selected_next, dep_key).version,
                                         DictGet(cmap, dep_key))
             ELSE "T", LAMBDA sat :
         Let(IF sat = "F" THEN DictPop(selected_next, dep_key) ELSE selected_next,
             LAMBDA sel :
                 IF sat = "E"
                 THEN [raise |-> TRUE, selected |-> selected_next,
                       constraints |-> cmap, pending |-> pending_next]
                 ELSE AddDependencies(Tail(deps), source, sel, cmap,
                                      IF ~DictHas(sel, dep_key) /\ ~SeqHas(pending_next, dep_key)
                                      THEN Append(pending_next, dep_key)
                                      ELSE pending_next)))))

\* _search.  errs is the sequence of the values assigned to last_error so
\* far (last_error is its last element).  The result's st is
\*   "solved"  a solution (selected, constraints) is returned,
\*   "none"    None is returned,
\*   "raise"   the SkilldockError raised, which was raised outside the try
\*             block and propagates out of every enclosing call.
SearchResult(st, selected, constraints, errs, raised) ==
    [st |-> st, selected |-> selected, constraints |-> constraints,
     errs |-> errs, raised |-> raised]

RECURSIVE _search(_, _, _, _, _)
RECURSIVE TryCandidates(_, _, _, _, _, _, _)

\* The loop of _search over the candidates of key.
TryCandidates(repo, selected_mut, constraints_map, key, rest, candidates, errs) ==
    IF candidates = <<>>
    THEN SearchResult("none", <<>>, <<>>, errs, NoError)
    ELSE Let(AddDependencies(candidates[1].dependencies,
                             SourceOf(key, candidates[1].version),
                             DictSet(selected_mut, key, candidates[1]),
                             constraints_map, rest), LAMBDA next :
             IF next.raise
             THEN SearchResult("raise", <<>>, <<>>, errs, SkilldockError("invalidreq", key))
             ELSE Let(_search(repo, next.selected, next.constraints, next.pending, errs),
                      LAMBDA solved :
                          IF solved.st # "none" THEN solved
                          ELSE TryCandidates(repo, selected_mut, constraints_map, key, rest,
                                             Tail(candidates), solved.errs)))

_search(repo, selected, constraints_map, pending_keys, errs) ==
    Let(Revalidate(DictKeys(selected), selected, constraints_map, Dedupe(pending_keys)),
        LAMBDA rv :
            IF rv.raise
            THEN SearchResult("raise", <<>>, <<>>, errs, SkilldockError("invalidreq", <<>>))
            ELSE IF rv.pending = <<>>
            THEN SearchResult("solved", rv.selected, constraints_map, errs, NoError)
            ELSE Let(_candidate_releases(rv.pending[1],
                                         ConstraintsGet(constraints_map, rv.pending[1]), repo),
                     LAMBDA cand :
                         IF cand.err # NoError
                         THEN SearchResult("none", <<>>, <<>>, Append(errs, cand.err), NoError)
                         ELSE TryCandidates(repo, rv.selected, constraints_map, rv.pending[1],
                                            Tail(rv.pending), cand.rels, errs)))

\* DirectConstraints without the specifiers: every direct key starts unconstrained.
RECURSIVE DirectConstraints_Unpinned(_, _)
DirectConstraints_Unpinned(keys, direct_requirements) ==
    IF keys = <<>> THEN <<>>
    ELSE ConstraintsAppend(
            DirectConstraints_Unpinned(SubSeq(keys, 1, Len(keys) - 1), direct_requirements),
            keys[Len(keys)],
            Requirement(Latest, DirectSource))

\* The constraints and pending list resolve_dependency_graph starts from.
RECURSIVE DirectConstraints(_, _)
DirectConstraints(keys, direct_requirements) ==
    IF keys = <<>> THEN <<>>
    ELSE ConstraintsAppend(
            DirectConstraints(SubSeq(keys, 1, Len(keys) - 1), direct_requirements),
            keys[Len(keys)],
            Requirement(normalize_requirement(direct_requirements[keys[Len(keys)]]),
                        DirectSource))

\* resolve_dependency_graph.  direct_requirements is a function key -> specifier.
\* ok = TRUE: (selected, constraints) is returned.  ok = FALSE: err is raised;
\* wrapped tells whether it is "Could not resolve dependency graph. Last
\* error: <err>" or err itself.  errs is the history of last_error.
resolve_dependency_graph(direct_requirements, repo) ==
    Let(SortStrings(DOMAIN direct_requirements), LAMBDA pending :
    Let(_search(repo, <<>>, DirectConstraints(pending, direct_requirements), pending, <<>>),
        LAMBDA solved :
            IF solved.st = "solved"
            THEN [ok |-> TRUE, selected |-> solved.selected,
                  constraints |-> solved.constraints,
                  err |-> NoError, wrapped |-> FALSE, errs |-> solved.errs]
            ELSE IF solved.st = "raise"
            THEN [ok |-> FALSE, selected |-> <<>>, constraints |-> <<>>,
                  err |-> solved.raised, wrapped |-> FALSE, errs |-> solved.errs]
            ELSE [ok |-> FALSE, selected |-> <<>>, constraints |-> <<>>,
                  err |-> IF solved.errs = <<>> THEN SkilldockError("unknown", <<>>)
                          ELSE solved.errs[Len(solved.errs)],
                  wrapped |-> TRUE, errs |-> solved.errs]))

(***************************************************************************)
(* The file system: a set of nodes [path, kind, data].  A path is the      *)
(* sequence of the names from the file system root, kind is "dir" or       *)
(* "file", and data tells what a file holds.                               *)
(***************************************************************************)

Node(path, kind, data) == [path |-> path, kind |-> kind, data |-> data]

IsPrefix(p, q) == Len(p) <= Len(q) /\ SubSeq(q, 1, Len(p)) = p

Exists(fs, p) == \E n \in fs : n.path = p

IsDir(fs, p) == \E n \in fs : n.path = p /\ n.kind = "dir"

IsFile(fs, p) == \E n \in fs : n.path = p /\ n.kind = "file"

Parent(p) == SubSeq(p, 1, Len(p) - 1)

Children(fs, p) == {n \in fs : Len(n.path) = Len(p) + 1 /\ IsPrefix(p, n.path)}

\* The names of a path string: pathlib drops the empty names and the "."
\* names of it and keeps the ".." names.
RECURSIVE DropDotNames(_)
DropDotNames(parts) ==
    IF parts = <<>> THEN <<>>
    ELSE IF parts[1] = <<>> \/ parts[1] = <<".">> THEN DropDotNames(Tail(parts))
    ELSE <<parts[1]>> \o DropDotNames(Tail(parts))

PathParts(s) == DropDotNames(SplitOn(s, "/"))

\* Path.resolve() where no name is a symbolic link: ".." leaves the
\* directory entered last, and the root is its own parent.
RECURSIVE ResolveParts(_, _)
ResolveParts(done, parts) ==
    IF parts = <<>> THEN done
    ELSE IF Head(parts) = <<".", ".">>
    THEN ResolveParts(IF done = <<>> THEN <<>> ELSE Parent(done), Tail(parts))
    ELSE ResolveParts(Append(done, Head(parts)), Tail(parts))

\* base / s: an absolute s replaces base.
PathJoin(base, s) ==
    IF StartsWith(s, <<"/">>) THEN PathParts(s) ELSE base \o PathParts(s)

ResolvePath(base, s) == ResolveParts(<<>>, PathJoin(base, s))

\* Path.mkdir(parents=True, exist_ok=True): ok = FALSE is the OSError of a
\* file standing where a directory is needed.
Mkdir(fs, p) ==
    IF \E i \in 1..Len(p) : IsFile(fs, SubSeq(p, 1, i))
    THEN [ok |-> FALSE, fs |-> fs]
    ELSE [ok |-> TRUE,
          fs |-> fs \cup {Node(SubSeq(p, 1, i), "dir", <<>>) :
                            i \in {j \in 1..Len(p) : ~Exists(fs, SubSeq(p, 1, j))}}]

\* open(p, "wb") and the copy into it.
WriteFile(fs, p, data) ==
    IF IsDir(fs, p) \/ ~IsDir(fs, Parent(p))
    THEN [ok |-> FALSE, fs |-> fs]
    ELSE [ok |-> TRUE,
          fs |-> {n \in fs : n.path # p} \cup {Node(p, "file", data)}]

\* shutil.rmtree(p, ignore_errors=True)
RmTree(fs, p) == {n \in fs : ~IsPrefix(p, n.path)}

\* src.rename(dst), dst absent: the tree under src becomes the tree under dst.
Rename(fs, src, dst) ==
    {n \in fs : ~IsPrefix(src, n.path)}
    \cup {Node(dst \o SubSeq(n.path, Len(src) + 1, Len(n.path)), n.kind, n.data) :
            n \in {m \in fs : IsPrefix(src, m.path)}}

(***************************************************************************)
(* Archive extraction and installation.                                    *)
(***************************************************************************)

RootDir == << <<"r">> >>

SkillsDir == RootDir \o << <<"s", "k", "i", "l", "l", "s">> >>

MarkerName == <<"S", "K", "I", "L", "L", ".", "m", "d">>

INSTALL_META_FILENAME ==
    <<".", "s", "k", "i", "l", "l", "d", "o", "c", "k", "-", "m", "e", "t", "a", ".", "j", "s", "o", "n">>

BackupSuffix ==
    <<".", "s", "k", "i", "l", "l", "d", "o", "c", "k", "-", "b", "a", "c", "k", "u", "p">>

TmpRoot == Append(SkillsDir, <<".", "t", "m", "p">>)

\* The directory TemporaryDirectory makes: its name stands for the random one.
TempDir == Append(TmpRoot, <<"s", "k", "i", "l", "l", "d", "o", "c", "k", "-", "t", "d">>)

UnpackRoot == Append(TempDir, <<"u", "n", "p", "a", "c", "k", "e", "d">>)

\* The check of _safe_extract_zip left out: every target passes.
IsInside_Anywhere(target, base) == TRUE

\* The check of _safe_extract_zip on the resolved target of an entry.
IsInside(target, base) == IsPrefix(base, target)

EndsWithSlash(name) == name # <<>> /\ name[Len(name)] = "/"

\* One round of the loop of _safe_extract_zip, on the entry called name:
\* err is the error the entry raises, fs the file system after it and wrote
\* the paths it created or wrote.
\* What one round of the loop leaves: the error raised, the file system and
\* the paths created or written since fs.
Extracted(err, fs, after) == [err |-> err, fs |-> after, wrote |-> {n.path : n \in after \ fs}]

\* The writes of one round of the loop of _safe_extract_zip, the target of
\* the entry being inside the destination.
WriteEntry(fs, name, target, data) ==
    Let(Mkdir(fs, IF EndsWithSlash(name) THEN target ELSE Parent(target)), LAMBDA made :
        IF ~made.ok THEN Extracted(SkilldockError("oserror", name), fs, fs)
        ELSE IF EndsWithSlash(name) THEN Extracted(NoError, fs, made.fs)
        ELSE Let(WriteFile(made.fs, target, data), LAMBDA out :
                 IF ~out.ok THEN Extracted(SkilldockError("oserror", name), fs, made.fs)
                 ELSE Extracted(NoError, fs, out.fs)))

ExtractEntry(fs, dest, name, data) ==
    IF name = <<>> THEN Extracted(NoError, fs, fs)
    ELSE IF StartsWith(name, <<"/">>) THEN Extracted(SkilldockError("absolute", name), fs, fs)
    ELSE Let(ResolvePath(dest, name), LAMBDA target :
             IF ~IsInside(target, ResolveParts(<<>>, dest))
             THEN Extracted(SkilldockError("invalidpath", name), fs, fs)
             ELSE WriteEntry(fs, name, target, data))

RECURSIVE ExtractEntries(_, _, _, _)
ExtractEntries(fs, dest, names, data) ==
    IF names = <<>> THEN [err |-> NoError, fs |-> fs]
    ELSE Let(ExtractEntry(fs, dest, Head(names), data), LAMBDA one :
             IF one.err # NoError THEN [err |-> one.err, fs |-> one.fs]
             ELSE ExtractEntries(one.fs, dest, Tail(names), data))

\* _safe_extract_zip: the entries of the archive in their order.
_safe_extract_zip(fs, names, dest, data) ==
    Let(Mkdir(fs, dest), LAMBDA made :
        IF ~made.ok THEN [err |-> SkilldockError("oserror", <<>>), fs |-> fs]
        ELSE ExtractEntries(made.fs, dest, names, data))

\* parse_skill_ref(key) and _skill_dir: skills_dir / namespace / slug.
Namespace(key) == Strip(Before(key, "/"))

Slug(key) == Strip(After(key, "/"))

_skill_dir(key) ==
    ResolveParts(<<>>, PathJoin(PathJoin(SkillsDir, Namespace(key)), Slug(key)))

BackupDir(dest) == Append(Parent(dest), dest[Len(dest)] \o BackupSuffix)

\* What a file of the archive of a release holds.
ArchiveData(release) == SourceOf(release.key, release.version)

\* _install_archive up to the extraction: the skills directory, the
\* namespace directory and the temporary directory are made.
PrepareInstall(fs, dest) ==
    Mkdir(Mkdir(Mkdir(Mkdir(fs, SkillsDir).fs, Parent(dest)).fs, TmpRoot).fs, TempDir).fs

\* A root marker check that takes the unpacked tree as it is.
SourceRoot_Unchecked(fs) == [found |-> TRUE, path |-> UnpackRoot]

\* A root marker check that takes the first directory that holds the
\* marker, whatever lies next to it.
SourceRoot_AmongOthers(fs) ==
    IF IsFile(fs, Append(UnpackRoot, MarkerName))
    THEN [found |-> TRUE, path |-> UnpackRoot]
    ELSE Let({n \in Children(fs, UnpackRoot) :
                 n.kind = "dir" /\ IsFile(fs, Append(n.path, MarkerName))}, LAMBDA holders :
             IF holders # {}
             THEN [found |-> TRUE, path |-> (CHOOSE only \in holders : TRUE).path]
             ELSE [found |-> FALSE, path |-> <<>>])

\* The directory that holds the root marker: source_root, or no directory.
SourceRoot(fs) ==
    IF IsFile(fs, Append(UnpackRoot, MarkerName))
    THEN [found |-> TRUE, path |-> UnpackRoot]
    ELSE Let(Children(fs, UnpackRoot), LAMBDA children :
             IF /\ Cardinality(children) = 1
                /\ \A only \in children :
                      only.kind = "dir" /\ IsFile(fs, Append(only.path, MarkerName))
             THEN [found |-> TRUE, path |-> (CHOOSE only \in children : TRUE).path]
             ELSE [found |-> FALSE, path |-> <<>>])

\* _write_installed_meta that makes the directory and writes no metadata.
_write_installed_meta_Nothing(fs, skill_dir, release) == Mkdir(fs, skill_dir).fs

\* _write_installed_meta
_write_installed_meta(fs, skill_dir, release) ==
    WriteFile(Mkdir(fs, skill_dir).fs, Append(skill_dir, INSTALL_META_FILENAME), release.version).fs

\* The replacement of the destination by source_root: the old directory is
\* set aside as the backup, the new one moved in and its metadata written;
\* fault is the step that fails ("none", "move" or "meta"), and a failure
\* restores the old directory.
\* An except block that restores nothing.
RestoreBackup_Abandons(failed, dest, backup, had_existing) == failed

\* The except block: what there is of the new directory is removed and the
\* old one moved back.
RestoreBackup(failed, dest, backup, had_existing) ==
    Let(IF Exists(failed, dest) THEN RmTree(failed, dest) ELSE failed, LAMBDA removed :
        IF had_existing /\ Exists(removed, backup)
        THEN Rename(removed, backup, dest) ELSE removed)

\* The try block on the file system with the old directory set aside.
MoveIn(aside, source_root, dest, backup, had_existing, release, fault) ==
    IF fault = "move" THEN RestoreBackup(aside, dest, backup, had_existing)
    ELSE Let(Rename(aside, source_root, dest), LAMBDA moved :
             IF fault = "meta" THEN RestoreBackup(moved, dest, backup, had_existing)
             ELSE _write_installed_meta(moved, dest, release))

SwapInto(fs, source_root, dest, release, fault) ==
    Let(BackupDir(dest), LAMBDA backup :
    Let(IF Exists(fs, backup) THEN RmTree(fs, backup) ELSE fs, LAMBDA cleared :
    Let(IF Exists(fs, dest) THEN Rename(cleared, dest, backup) ELSE cleared, LAMBDA aside :
    Let(MoveIn(aside, source_root, dest, backup, Exists(fs, dest), release, fault),
        LAMBDA after :
            [err |-> IF fault = "none" THEN NoError
                     ELSE SkilldockError("oserror", release.key),
             fs |-> IF Exists(after, backup) THEN RmTree(after, backup) ELSE after]))))

\* The end of the TemporaryDirectory block.
CleanupTemp(fs) == RmTree(fs, TempDir)

\* _install_archive: names are the entries of the archive.
\* The body of the TemporaryDirectory block of _install_archive.
InstallUnpacked(ready, release, names, dest, fault) ==
    Let(_safe_extract_zip(ready, names, UnpackRoot, ArchiveData(release)), LAMBDA extracted :
        IF extracted.err # NoError THEN extracted
        ELSE Let(SourceRoot(extracted.fs), LAMBDA source_root :
                 IF ~source_root.found
                 THEN [err |-> SkilldockError("nomarker", release.key), fs |-> extracted.fs]
                 ELSE SwapInto(extracted.fs, source_root.path, dest, release, fault)))

_install_archive(fs, release, names, fault) ==
    Let(_skill_dir(release.key), LAMBDA dest :
    Let(InstallUnpacked(PrepareInstall(fs, dest), release, names, dest, fault), LAMBDA done :
        [err |-> done.err, fs |-> CleanupTemp(done.fs)]))

(***************************************************************************)
(* Reconciliation.                                                         *)
(***************************************************************************)

\* The archives behind the download URLs.
GoodArchive == <<MarkerName, <<"f">> >>

NestedArchive == << <<"p", "/">>, <<"p", "/">> \o MarkerName >>

NoMarkerArchive == << <<"f">> >>

UnsafeArchive == <<MarkerName, <<".", ".", "/", "x">> >>

UrlNested == <<"n">>
UrlNoMarker == <<"b">>
UrlUnsafe == <<"x">>

\* The download URLs that the server answers with an error: the body of the
\* first says "Release <key>@<version> has no download URL.", that of the
\* second says something else.
UrlGone == <<"g">>
UrlDown == <<"d">>

ArchiveAt(url) ==
    IF url = UrlNested THEN NestedArchive
    ELSE IF url = UrlNoMarker THEN NoMarkerArchive
    ELSE IF url = UrlUnsafe THEN UnsafeArchive
    ELSE GoodArchive

\* ApiReleaseRepository.download_archive: a release without a download URL is
\* looked up by its version once more.
RefreshedUrl(repo, release) ==
    Let(get_release(repo, release.key, release.version), LAMBDA refreshed :
        IF refreshed.found THEN refreshed.rel.download_url ELSE <<>>)

\* The GET of download_archive: a response of status 400 or above is raised
\* as a SkilldockHTTPError with the body of the response for its message.
RequestArchive(download_url, release) ==
    IF download_url = UrlGone
    THEN [err |-> SkilldockError("nourl", release.key), zip |-> <<>>]
    ELSE IF download_url = UrlDown
    THEN [err |-> SkilldockError("http", release.key), zip |-> <<>>]
    ELSE [err |-> NoError, zip |-> ArchiveAt(download_url)]

download_archive(repo, release) ==
    Let(IF release.download_url # <<>> THEN release.download_url
        ELSE RefreshedUrl(repo, release), LAMBDA download_url :
        IF download_url = <<>>
        THEN [err |-> SkilldockError("nourl", release.key), zip |-> <<>>]
        ELSE RequestArchive(download_url, release))

\* The characters of [A-Za-z0-9._-].
KeyClass == AlNum \cup {".", "_", "-"}

\* The length of the longest run of KeyClass characters of s from position i.
RECURSIVE ClassRun(_, _)
ClassRun(s, i) ==
    IF i > Len(s) \/ s[i] \notin KeyClass THEN 0 ELSE 1 + ClassRun(s, i + 1)

\* ([A-Za-z0-9._-]+/[A-Za-z0-9._-]+) matched at the start of s: the group
\* and what follows it.
KeyGroup(s) ==
    Let(ClassRun(s, 1), LAMBDA n1 :
    Let(ClassRun(s, n1 + 2), LAMBDA n2 :
        IF n1 = 0 \/ n1 + 1 > Len(s) \/ s[n1 + 1] # "/" \/ n2 = 0
        THEN [matched |-> FALSE, group |-> <<>>, rest |-> <<>>]
        ELSE [matched |-> TRUE, group |-> SubSeq(s, 1, n1 + 1 + n2),
              rest |-> SubSeq(s, n1 + n2 + 2, Len(s))]))

\* _parse_missing_download_url_error on the message of err: the key the
\* message names is followed by "@".
_parse_missing_download_url_error(err) ==
    err.kind = "nourl" /\ \A m \in {KeyGroup(err.key)} : m.matched /\ m.rest = <<>>

\* _is_release_unavailable_error that takes no error for an unavailable release.
_is_release_unavailable_error_Never(err) == FALSE

\* _is_release_unavailable_error that takes every error for an unavailable release.
_is_release_unavailable_error_Always(err) == TRUE

\* _is_release_unavailable_error on the message of err.
_is_release_unavailable_error(err) ==
    \/ err.kind \in {"notfound", "norelease", "nodownloadable"}
    \/ _parse_missing_download_url_error(err)

\* The two searches of _reconcile in the message of err: missing_key, <<>>
\* for None.  The first pattern ends with the group, the second one goes on
\* with white space after it.
MissingKey(err) ==
    IF err.kind \notin {"notfound", "norelease"} THEN <<>>
    ELSE Let(KeyGroup(err.key), LAMBDA m :
             IF m.matched /\ (err.kind = "notfound" \/ m.rest = <<>>) THEN m.group ELSE <<>>)

Without(f, key) == [k \in (DOMAIN f) \ {key} |-> f[k]]

FunSet(f, key, value) == [k \in (DOMAIN f) \cup {key} |-> IF k = key THEN value ELSE f[k]]

Warning(kind, key, reason) == [kind |-> kind, key |-> key, reason |-> reason]

\* _find_unresolvable_direct_skills: err is the error it raises, failures
\* the keys it returns, in their order, with the reasons.
RECURSIVE FindUnresolvable(_, _, _, _)
FindUnresolvable(keys, direct_requirements, repo, failures) ==
    IF keys = <<>> THEN [err |-> NoError, failures |-> failures]
    ELSE Let(resolve_dependency_graph(Head(keys) :> direct_requirements[Head(keys)], repo),
             LAMBDA r :
                 IF ~r.ok /\ ~_is_release_unavailable_error(r.err)
                 THEN [err |-> r.err, failures |-> failures]
                 ELSE FindUnresolvable(Tail(keys), direct_requirements, repo,
                                       IF r.ok THEN failures
                                       ELSE Append(failures, [key |-> Head(keys), val |-> r.err])))

_find_unresolvable_direct_skills(direct_requirements, repo) ==
    FindUnresolvable(SortStrings(DOMAIN direct_requirements), direct_requirements, repo, <<>>)

\* A loop over the failures that drops no direct package.
DropAll_None(effective_direct, failures) == effective_direct

RECURSIVE DropAll(_, _)
DropAll(effective_direct, failures) ==
    IF failures = <<>> THEN effective_direct
    ELSE DropAll(Without(effective_direct, Head(failures).key), Tail(failures))

\* Direct packages dropped without a warning.
UnresolvedWarnings_Silent(failures) == <<>>

\* The warnings for the direct packages that do not resolve on their own.

UnresolvedWarnings(failures) ==
    [i \in 1..Len(failures) |-> Warning("unresolved", failures[i].key, failures[i].val)]

\* What the except block of the loop of _reconcile does with the error err
\* of the resolution: the loop goes on (again) without the direct packages
\* dropped, or err itself or the error of the per-package check is raised.
DropUnreachable(effective_direct, warnings, repo, err) ==
    Let(MissingKey(err), LAMBDA missing_key :
        IF missing_key # <<>> /\ missing_key \in DOMAIN effective_direct
        THEN [again |-> TRUE, err |-> NoError,
              effective_direct |-> Without(effective_direct, missing_key),
              warnings |-> Append(warnings, Warning("missing", missing_key, NoError))]
        ELSE Let(_find_unresolvable_direct_skills(effective_direct, repo),
                 LAMBDA unresolvable :
                     IF unresolvable.err # NoError
                     THEN [again |-> FALSE, err |-> unresolvable.err,
                           effective_direct |-> effective_direct, warnings |-> warnings]
                     ELSE IF unresolvable.failures # <<>>
                     THEN [again |-> TRUE, err |-> NoError,
                           effective_direct |->
                               DropAll(effective_direct, unresolvable.failures),
                           warnings |->
                               warnings \o UnresolvedWarnings(unresolvable.failures)]
                     ELSE [again |-> FALSE, err |-> err,
                           effective_direct |-> effective_direct, warnings |-> warnings]))

\* The loop of _reconcile that resolves effective_direct and drops the
\* direct packages it cannot reach: err is the error it raises.
RECURSIVE ResolveEffective(_, _, _)
ResolveEffective(effective_direct, warnings, repo) ==
    IF DOMAIN effective_direct = {}
    THEN [err |-> NoError, resolved |-> <<>>,
          effective_direct |-> effective_direct, warnings |-> warnings]
    ELSE Let(resolve_dependency_graph(effective_direct, repo), LAMBDA r :
             IF r.ok
             THEN [err |-> NoError, resolved |-> r.selected,
                   effective_direct |-> effective_direct, warnings |-> warnings]
             ELSE Let(DropUnreachable(effective_direct, warnings, repo, r.err),
                      LAMBDA dropped :
                          IF dropped.again
                          THEN ResolveEffective(dropped.effective_direct,
                                                dropped.warnings, repo)
                          ELSE [err |-> dropped.err, resolved |-> <<>>,
                                effective_direct |-> effective_direct,
                                warnings |-> warnings]))

\* CurrentVersion that never finds a version: no package passes for installed.
CurrentVersion_Unknown(fs, current_skills, key) == <<>>

\* _read_installed_meta and the version _reconcile reads from it; <<>> is None.
MetaVersion(fs, skill_dir) ==
    IF IsFile(fs, Append(skill_dir, INSTALL_META_FILENAME))
    THEN Strip((CHOOSE n \in fs : n.path = Append(skill_dir, INSTALL_META_FILENAME)).data)
    ELSE <<>>

\* The version _reconcile takes a package to be installed at.
CurrentVersion(fs, current_skills, key) ==
    Let(MetaVersion(fs, _skill_dir(key)), LAMBDA current_version :
        IF current_version # <<>> THEN current_version
        ELSE IF key \in DOMAIN current_skills THEN Strip(current_skills[key].version)
        ELSE <<>>)

\* _remove_skill that removes nothing.
_remove_skill_Keeps(fs, key) == fs

\* _remove_skill that takes the whole namespace directory with it.
_remove_skill_WithNamespace(fs, key) == RmTree(fs, Parent(_skill_dir(key)))

\* _remove_skill: the directory of the package, and its namespace directory
\* when that is left empty.
_remove_skill(fs, key) ==
    Let(_skill_dir(key), LAMBDA skill_dir :
    Let(RmTree(fs, skill_dir), LAMBDA gone :
        IF IsDir(gone, Parent(skill_dir)) /\ Children(gone, Parent(skill_dir)) = {}
        THEN {n \in gone : n.path # Parent(skill_dir)}
        ELSE gone))

ReconcileResult(err, installed, updated, removed, unchanged, warnings) ==
    [raised |-> err # NoError, err |-> err, installed |-> installed, updated |-> updated,
     removed |-> removed, unchanged |-> unchanged, warnings |-> warnings]

\* A download and installation that gives up on every error of the download.
DownloadAndInstall_GivingUp(key, rel, repo, existed, acc) ==
    Let(download_archive(repo, rel), LAMBDA got :
        IF got.err # NoError
        THEN [acc EXCEPT !.err = got.err]
        ELSE Let(_install_archive(acc.fs, rel, got.zip, "none"), LAMBDA put :
                 IF put.err # NoError THEN [acc EXCEPT !.err = put.err, !.fs = put.fs]
                 ELSE IF existed THEN [acc EXCEPT !.fs = put.fs, !.updated = Append(@, key)]
                 ELSE [acc EXCEPT !.fs = put.fs, !.installed = Append(@, key)]))

\* The download and installation of the release rel of key, the package
\* being absent or installed at another version.
DownloadAndInstall(key, rel, repo, existed, acc) ==
    Let(download_archive(repo, rel), LAMBDA got :
        IF got.err # NoError
        THEN IF _parse_missing_download_url_error(got.err)
             THEN [acc EXCEPT !.warnings = Append(@, Warning("nourl", key, got.err))]
             ELSE [acc EXCEPT !.err = got.err]
        ELSE Let(_install_archive(acc.fs, rel, got.zip, "none"), LAMBDA put :
                 IF put.err # NoError THEN [acc EXCEPT !.err = put.err, !.fs = put.fs]
                 ELSE IF existed THEN [acc EXCEPT !.fs = put.fs, !.updated = Append(@, key)]
                 ELSE [acc EXCEPT !.fs = put.fs, !.installed = Append(@, key)]))

\* A round of the loop that installs whatever is in place.
InstallOne_Always(key, rel, current_skills, repo, acc) ==
    DownloadAndInstall(key, rel, repo,
                       Exists(acc.fs, _skill_dir(key))
                           \/ CurrentVersion(acc.fs, current_skills, key) # <<>>,
                       acc)

\* One round of the loop of _reconcile over sorted(resolved).
InstallOne(key, rel, current_skills, repo, acc) ==
    Let(Exists(acc.fs, _skill_dir(key)), LAMBDA dir_exists :
    Let(CurrentVersion(acc.fs, current_skills, key), LAMBDA current_version :
        IF /\ dir_exists
           /\ current_version # <<>>
           /\ compare_versions(current_version, rel.version) = 0
        THEN [acc EXCEPT !.unchanged = Append(@, key)]
        ELSE DownloadAndInstall(key, rel, repo,
                                dir_exists \/ current_version # <<>>, acc)))

\* The loop of _reconcile over sorted(resolved): acc holds the file system
\* and the lists built so far, and err the error that ends the loop.
RECURSIVE InstallResolved(_, _, _, _, _)
InstallResolved(keys, resolved, current_skills, repo, acc) ==
    IF keys = <<>> \/ acc.err # NoError THEN acc
    ELSE InstallResolved(Tail(keys), resolved, current_skills, repo,
                         InstallOne(Head(keys), DictGet(resolved, Head(keys)),
                                    current_skills, repo, acc))

\* A prune loop that removes nothing.
PruneRemoved_Keeping(keys, resolved, acc) == acc

\* A prune loop that removes every package of the prior lock file, those of
\* the resolved graph too.
RECURSIVE PruneRemoved_Every(_, _, _)
PruneRemoved_Every(keys, resolved, acc) ==
    IF keys = <<>> THEN acc
    ELSE PruneRemoved_Every(Tail(keys), resolved,
                            [acc EXCEPT !.fs = _remove_skill(@, Head(keys)),
                                        !.removed = Append(@, Head(keys))])

\* The loop of _reconcile over sorted(current_skills).
RECURSIVE PruneRemoved(_, _, _)
PruneRemoved(keys, resolved, acc) ==
    IF keys = <<>> THEN acc
    ELSE IF DictHas(resolved, Head(keys)) THEN PruneRemoved(Tail(keys), resolved, acc)
    ELSE PruneRemoved(Tail(keys), resolved,
                      [acc EXCEPT !.fs = _remove_skill(@, Head(keys)),
                                  !.removed = Append(@, Head(keys))])

\* The dependencies of a lock entry: sorted by key, the empty fields left out.
RECURSIVE SortDepsByKey(_)
SortDepsByKey(deps) ==
    IF deps = <<>> THEN <<>>
    ELSE Let(SortDepsByKey(SubSeq(deps, 1, Len(deps) - 1)), LAMBDA rest :
         Let(Cardinality({i \in 1..Len(rest) : StrCmp(rest[i].key, deps[Len(deps)].key) <= 0}),
             LAMBDA n :
                 SubSeq(rest, 1, n) \o <<deps[Len(deps)]>> \o SubSeq(rest, n + 1, Len(rest))))

\* The entry _save_lock writes for a release.
LockItem(rel) ==
    [version |-> rel.version,
     dependencies |-> SortDepsByKey(rel.dependencies),
     download_url |-> rel.download_url]

\* _save_lock: the skills of the lock file.
_save_lock(resolved) == [key \in DictKeySet(resolved) |-> LockItem(DictGet(resolved, key))]

\* _save_manifest: the direct requirements of the manifest file.
_save_manifest(direct_requirements) == direct_requirements

Raised(err, fs, mf, lk) ==
    [result |-> ReconcileResult(err, <<>>, <<>>, <<>>, <<>>, <<>>),
     fs |-> fs, manifest |-> mf, lock |-> lk]

\* An end of _reconcile that adds the resolved graph to the entries of the
\* lock file instead of writing the file anew.
ApplyResolved_Merging(loop, repo, ensured, mf, lk) ==
    Let(InstallResolved(SortStrings(DictKeySet(loop.resolved)), loop.resolved, lk, repo,
                        [err |-> NoError, fs |-> ensured, installed |-> <<>>,
                         updated |-> <<>>, removed |-> <<>>, unchanged |-> <<>>,
                         warnings |-> loop.warnings]), LAMBDA done :
        IF done.err # NoError THEN Raised(done.err, done.fs, mf, lk)
        ELSE Let(PruneRemoved(SortStrings(DOMAIN lk), loop.resolved, done), LAMBDA pruned :
                 [result |-> ReconcileResult(NoError, pruned.installed, pruned.updated,
                                             pruned.removed, pruned.unchanged,
                                             pruned.warnings),
                  fs |-> pruned.fs,
                  manifest |-> _save_manifest(loop.effective_direct),
                  lock |-> _save_lock(loop.resolved) @@ lk]))

\* An end of _reconcile that writes the manifest before the install loop.
ApplyResolved_SavingFirst(loop, repo, ensured, mf, lk) ==
    Let(InstallResolved(SortStrings(DictKeySet(loop.resolved)), loop.resolved, lk, repo,
                        [err |-> NoError, fs |-> ensured, installed |-> <<>>,
                         updated |-> <<>>, removed |-> <<>>, unchanged |-> <<>>,
                         warnings |-> loop.warnings]), LAMBDA done :
        IF done.err # NoError
        THEN Raised(done.err, done.fs, _save_manifest(loop.effective_direct), lk)
        ELSE Let(PruneRemoved(SortStrings(DOMAIN lk), loop.resolved, done), LAMBDA pruned :
                 [result |-> ReconcileResult(NoError, pruned.installed, pruned.updated,
                                             pruned.removed, pruned.unchanged,
                                             pruned.warnings),
                  fs |-> pruned.fs,
                  manifest |-> _save_manifest(loop.effective_direct),
                  lock |-> _save_lock(loop.resolved)]))

\* _reconcile after its resolution loop: the install loop, the prune loop
\* and the writing of the manifest and the lock file.
ApplyResolved(loop, repo, ensured, mf, lk) ==
    Let(InstallResolved(SortStrings(DictKeySet(loop.resolved)), loop.resolved, lk, repo,
                        [err |-> NoError, fs |-> ensured, installed |-> <<>>,
                         updated |-> <<>>, removed |-> <<>>, unchanged |-> <<>>,
                         warnings |-> loop.warnings]), LAMBDA done :
        IF done.err # NoError THEN Raised(done.err, done.fs, mf, lk)
        ELSE Let(PruneRemoved(SortStrings(DOMAIN lk), loop.resolved, done), LAMBDA pruned :
                 [result |-> ReconcileResult(NoError, pruned.installed, pruned.updated,
                                             pruned.removed, pruned.unchanged,
                                             pruned.warnings),
                  fs |-> pruned.fs,
                  manifest |-> _save_manifest(loop.effective_direct),
                  lock |-> _save_lock(loop.resolved)]))

\* _reconcile on the state (fs, mf, lk): the result and the state after it.
_reconcile(direct_requirements, repo, fs, mf, lk) ==
    Let(Mkdir(fs, SkillsDir).fs, LAMBDA ensured :
    Let(ResolveEffective([key \in DOMAIN direct_requirements |->
                             normalize_requirement(direct_requirements[key])],
                         <<>>, repo), LAMBDA loop :
        IF loop.err # NoError THEN Raised(loop.err, ensured, mf, lk)
        ELSE ApplyResolved(loop, repo, ensured, mf, lk)))

\* str.rfind(c), counted from 1; 0 when c is not in s.
LastIndexOf(s, c) ==
    IF HasChar(s, c) THEN CHOOSE i \in 1..Len(s) : s[i] = c /\ \A j \in (i + 1)..Len(s) : s[j] # c
    ELSE 0

\* parse_skill_ref: err is the error it raises, key the key of the SkillRef.
parse_skill_ref(value) ==
    Let(Strip(Before(Strip(value), "/")), LAMBDA namespace :
    Let(Strip(After(Strip(value), "/")), LAMBDA slug :
        IF ~HasChar(value, "/") \/ namespace = <<>> \/ slug = <<>>
        THEN [err |-> SkilldockError("invalidskill", value), key |-> <<>>]
        ELSE [err |-> NoError, key |-> namespace \o <<"/">> \o slug]))

\* _split_install_skill_and_requirement: <<>> is the requirement None.
\* The split of skill_value at the "@" at at_idx.
SplitShorthand(skill, skill_value, requirement, at_idx) ==
    Let(Strip(SubSeq(skill_value, 1, at_idx - 1)), LAMBDA shorthand_skill :
    Let(Strip(SubSeq(skill_value, at_idx + 1, Len(skill_value))), LAMBDA shorthand_req :
        IF at_idx > 1 /\ HasChar(shorthand_skill, "/") /\ shorthand_req # <<>>
        THEN IF requirement # <<>>
             THEN [err |-> SkilldockError("bothversions", skill),
                   skill |-> <<>>, requirement |-> <<>>]
             ELSE [err |-> NoError, skill |-> shorthand_skill, requirement |-> shorthand_req]
        ELSE [err |-> NoError, skill |-> skill_value, requirement |-> requirement]))

_split_install_skill_and_requirement(skill, requirement) ==
    IF Strip(skill) = <<>>
    THEN [err |-> SkilldockError("invalidskill", skill), skill |-> <<>>, requirement |-> <<>>]
    ELSE SplitShorthand(skill, Strip(skill), requirement, LastIndexOf(Strip(skill), "@"))

\* The direct requirements LocalSkillManager.install reconciles.
InstallDirect(skill, requirement, mf) ==
    Let(_split_install_skill_and_requirement(skill, requirement), LAMBDA split :
        IF split.err # NoError THEN [err |-> split.err, key |-> <<>>, direct |-> mf]
        ELSE Let(parse_skill_ref(split.skill), LAMBDA ref :
                 IF ref.err # NoError THEN [err |-> ref.err, key |-> <<>>, direct |-> mf]
                 ELSE [err |-> NoError, key |-> ref.key,
                       direct |-> FunSet(mf, ref.key,
                                         normalize_requirement(split.requirement))]))

\* The direct requirements LocalSkillManager.uninstall reconciles.
UninstallDirect(skill, mf) ==
    Let(parse_skill_ref(skill), LAMBDA ref :
        IF ref.err # NoError THEN [err |-> ref.err, key |-> <<>>, direct |-> mf]
        ELSE [err |-> NoError, key |-> ref.key, direct |-> Without(mf, ref.key)])

\* LocalSkillManager.install
install(skill, requirement, repo, fs, mf, lk) ==
    Let(InstallDirect(skill, requirement, mf), LAMBDA d :
        IF d.err # NoError THEN Raised(d.err, fs, mf, lk)
        ELSE _reconcile(d.direct, repo, fs, mf, lk))

\* LocalSkillManager.uninstall
uninstall(skill, repo, fs, mf, lk) ==
    Let(UninstallDirect(skill, mf), LAMBDA d :
        IF d.err # NoError THEN Raised(d.err, fs, mf, lk)
        ELSE _reconcile(d.direct, repo, fs, mf, lk))

(***************************************************************************)
(* The packages, versions and specifiers the model draws its inputs from.  *)
(***************************************************************************)

KeyAB == <<"a", "/", "b">>
KeyABC == <<"a", "/", "b", "/", "c">>
KeyCD == <<"c", "/", "d">>
KeyTE == <<"t", "/", "e">>
KeyAE == <<"a", "/", "e">>

AllKeys == {KeyAB, KeyABC, KeyCD, KeyTE, KeyAE}

V100 == <<"1", ".", "0", ".", "0">>
V200 == <<"2", ".", "0", ".", "0">>
V10 == <<"1", ".", "0">>

Caret1 == <<"^", "1", ".", "0", ".", "0">>
Caret2 == <<"^", "2", ".", "0", ".", "0">>
Below2 == <<"<", "2", ".", "0", ".", "0">>
CaretBad == <<"^", "x">>

None == <<>>
Url == <<"u">>

\* The releases a remote catalog is made of.  Every release of a key that is
\* published under the same version is a variant of that release: a catalog
\* holds at most one of them.
ReleaseCorpus ==
    << SkillRelease(KeyAB, V200, <<DependencySpec(KeyCD, None, V200)>>, Url),
       SkillRelease(KeyAB, V100, <<DependencySpec(KeyCD, None, V100)>>, Url),
       SkillRelease(KeyAB, V200, <<DependencySpec(KeyCD, Caret2, None)>>, Url),
       SkillRelease(KeyCD, V100, <<>>, Url),
       SkillRelease(KeyCD, V200, <<>>, Url),
       SkillRelease(KeyCD, V200, <<>>, None),
       SkillRelease(KeyTE, V100, <<DependencySpec(KeyCD, Caret1, None)>>, Url),
       SkillRelease(KeyTE, V100, <<DependencySpec(KeyCD, None, V10)>>, Url),
       SkillRelease(KeyTE, V200, <<DependencySpec(KeyAB, Below2, None)>>, Url),
       SkillRelease(KeyTE, V200, <<DependencySpec(KeyAB, CaretBad, None)>>, Url),
       SkillRelease(KeyTE, V200, <<DependencySpec(KeyAB, None, None),
                                   DependencySpec(KeyCD, None, V200)>>, Url) >>

\* The most releases a catalog holds.
MaxCatalog == 3

\* The sets of corpus indices that make a catalog.
CatalogChoices ==
    {S \in SUBSET (1..Len(ReleaseCorpus)) :
        /\ Cardinality(S) <= MaxCatalog
        /\ \A i, j \in S :
              (/\ ReleaseCorpus[i].key = ReleaseCorpus[j].key
               /\ ReleaseCorpus[i].version = ReleaseCorpus[j].version) => i = j}

RECURSIVE ReleasesOf(_, _, _)
ReleasesOf(S, key, i) ==
    IF i > Len(ReleaseCorpus) THEN <<>>
    ELSE IF i \in S /\ ReleaseCorpus[i].key = key
    THEN <<ReleaseCorpus[i]>> \o ReleasesOf(S, key, i + 1)
    ELSE ReleasesOf(S, key, i + 1)

\* The repository that serves catalog S: the list endpoint of a key without
\* releases answers 404.
CatalogRepo(S) ==
    [key \in AllKeys |->
        [list |-> IF ReleasesOf(S, key, 1) = <<>> THEN "notfound" ELSE "ok",
         releases |-> ReleasesOf(S, key, 1),
         byVersion |-> <<>>]]

\* The repository that serves catalog S and the release 1.0.0 of a/e, a
\* package without dependencies, with the download URL url.
WithSibling(S, url) ==
    [key \in AllKeys |->
        IF key = KeyAE
        THEN [list |-> "ok", releases |-> <<SkillRelease(KeyAE, V100, <<>>, url)>>,
              byVersion |-> <<>>]
        ELSE CatalogRepo(S)[key]]

\* A repository with two packages of one namespace: a/b 1.0.0 with its
\* dependency c/d 1.0.0, and a/e 1.0.0.
SiblingRepo == WithSibling({2, 4}, Url)

\* The direct requirement maps a resolution is asked for.
DirectChoices ==
    UNION {[K -> {Latest}] : K \in (SUBSET {KeyAB, KeyCD, KeyTE}) \ {{}}}
    \cup { (KeyAB :> Latest) @@ (KeyCD :> V100),
           (KeyAB :> Latest) @@ (KeyCD :> V10),
           (KeyAB :> Latest) @@ (KeyCD :> V10) @@ (KeyTE :> Latest),
           (KeyCD :> V200),
           (KeyCD :> V200) @@ (KeyTE :> Latest),
           (KeyAB :> Caret1) @@ (KeyTE :> Latest) }

(***************************************************************************)
(* State.                                                                  *)
(***************************************************************************)

VARIABLES
    remote,      \* the release repository
    direct,      \* the direct requirements a resolution is asked for
    resolution,  \* what resolve_dependency_graph returned or raised
    disk,        \* the file system under the project root
    manifest,    \* the direct requirements of the manifest file
    lock,        \* the skills of the lock file
    call,        \* the last call of install, uninstall or compare_versions
    result,      \* what the last call returned or raised
    inst         \* the installation of one archive, step by step

vars == <<remote, direct, resolution, disk, manifest, lock, call, result, inst>>

NotRun == [ok |-> FALSE, selected |-> <<>>, constraints |-> <<>>,
           err |-> SkilldockError("notrun", <<>>), wrapped |-> FALSE, errs |-> <<>>]

NoCall == [op |-> "none"]

NoResult == [raised |-> FALSE]

NoInstall == [pc |-> "idle"]

\* The project before anything is installed: no manifest, no lock file and
\* no skills directory.
EmptyFs == Mkdir({}, RootDir).fs

ManagerIdle ==
    /\ disk = EmptyFs
    /\ manifest = <<>>
    /\ lock = <<>>
    /\ call = NoCall
    /\ result = NoResult

(***************************************************************************)
(* Resolution on its own: the inputs are drawn, then resolved.             *)
(***************************************************************************)

InitResolve ==
    /\ remote \in {CatalogRepo(S) : S \in CatalogChoices}
    /\ direct \in DirectChoices
    /\ resolution = NotRun
    /\ ManagerIdle
    /\ inst = NoInstall

Resolve ==
    /\ resolution = NotRun
    /\ resolution' = resolve_dependency_graph(direct, remote)
    /\ UNCHANGED <<remote, direct, disk, manifest, lock, call, result, inst>>

NextResolve == Resolve

SpecResolve == InitResolve /\ [][NextResolve]_vars

(***************************************************************************)
(* Properties of the resolver.                                             *)
(***************************************************************************)

Resolved == resolution # NotRun

Selected == resolution.selected

ReturnedConstraints(key) == ConstraintsGet(resolution.constraints, key)

RequirementSet(key) == {ReturnedConstraints(key)[i] : i \in 1..Len(ReturnedConstraints(key))}

Listed(release) == SeqHas(remote[release.key].releases, release)

\* direct_requirements and repo with DirectConstraints as it stands in the
\* source: the requirement every direct key starts with.
DirectRequirementOf(key) == Requirement(normalize_requirement(direct[key]), DirectSource)

\* C1: whenever resolve_dependency_graph returns a solution, (a) every key of
\* it maps to exactly one release, a listed release of that key, (b) every
\* direct key and every dependency key of a selected release is a key of it,
\* and (c) every selected version satisfies every requirement of the
\* returned constraint list of its key, a list that holds the direct
\* specifier and every specifier a selected release contributes.
C1_SolutionIsSound ==
    (Resolved /\ resolution.ok) =>
        /\ \A i, j \in 1..Len(Selected) : Selected[i].key = Selected[j].key => i = j
        /\ \A i \in 1..Len(Selected) :
              /\ Selected[i].val.key = Selected[i].key
              /\ Listed(Selected[i].val)
        /\ \A key \in DOMAIN direct :
              /\ DictHas(Selected, key)
              /\ DirectRequirementOf(key) \in RequirementSet(key)
        /\ \A i \in 1..Len(Selected) :
              \A d \in 1..Len(Selected[i].val.dependencies) :
                 LET dep == Selected[i].val.dependencies[d]
                 IN  /\ DictHas(Selected, dep.key)
                     /\ \A s \in 1..Len(DepSpecs(dep)) :
                           Requirement(DepSpecs(dep)[s],
                                       SourceOf(Selected[i].key, Selected[i].val.version))
                              \in RequirementSet(dep.key)
        /\ \A i \in 1..Len(Selected) :
              \A req \in RequirementSet(Selected[i].key) :
                 /\ SpecifierParses(req.specifier)
                 /\ version_satisfies(Selected[i].val.version, req.specifier)

\* A solution in which a key is constrained by a direct pin and by a
\* dependency edge of another selected release.
C1_Witness ==
    /\ Resolved /\ resolution.ok
    /\ \E i \in 1..Len(Selected) :
          /\ Selected[i].key \in DOMAIN direct
          /\ direct[Selected[i].key] # Latest
          /\ \E req \in RequirementSet(Selected[i].key) : req.source # DirectSource

ConflictFound ==
    \E i \in 1..Len(resolution.errs) : resolution.errs[i].kind = "conflict"

Satisfies(version, specifier) ==
    SpecifierParses(specifier) /\ version_satisfies(version, specifier)

Downloadable(key) ==
    {remote[key].releases[i] :
        i \in {j \in 1..Len(remote[key].releases) :
                  _has_download_url(remote[key].releases[j])}}

ValidAssignment(f) ==
    /\ DOMAIN direct \subseteq DOMAIN f
    /\ \A key \in DOMAIN direct : Satisfies(f[key].version, normalize_requirement(direct[key]))
    /\ \A key \in DOMAIN f :
          \A d \in 1..Len(f[key].dependencies) :
             LET dep == f[key].dependencies[d]
             IN  /\ dep.key \in DOMAIN f
                 /\ \A s \in 1..Len(DepSpecs(dep)) :
                       Satisfies(f[dep.key].version, DepSpecs(dep)[s])

AssignmentExists ==
    \E K \in SUBSET AllKeys :
       /\ \A key \in K : Downloadable(key) # {}
       /\ \E f \in [K -> UNION {Downloadable(key) : key \in K}] :
             /\ \A key \in K : f[key] \in Downloadable(key)
             /\ ValidAssignment(f)

\* C3 as stated: the resolver returns a solution exactly when some assignment
\* of one downloadable release per required key satisfies every constraint.
C3_FindsEveryCompatibleGraph ==
    Resolved => (resolution.ok <=> AssignmentExists)

(***************************************************************************)
(* The manager: install and uninstall calls on one project, against a      *)
(* remote that does not change.                                            *)
(***************************************************************************)

\* The catalogs the manager is run against, as sets of corpus indices.
ManagerCatalogs ==
    { {1, 2, 4, 5, 7},
      {1, 4, 7},
      {1, 4, 5, 8},
      {1, 5},
      {2, 4, 5, 11},
      {3, 4, 6, 7} }

\* The skill arguments of install with their --version arguments, and the
\* skill arguments of uninstall.
InstallInputs ==
    { <<KeyAB, None>>, <<KeyCD, None>>, <<KeyTE, None>>, <<KeyABC, None>>,
      <<KeyCD \o <<"@">> \o V100, None>>, <<KeyAE, None>> }

UninstallInputs == {KeyAB, KeyCD, KeyTE}

IsEmptyProject == manifest = <<>> /\ lock = <<>> /\ ~Exists(disk, SkillsDir)

Init ==
    /\ remote \in {CatalogRepo(S) : S \in ManagerCatalogs} \cup {SiblingRepo}
    /\ direct = <<>>
    /\ resolution = NotRun
    /\ ManagerIdle
    /\ inst = NoInstall

\* The record of a call: what it was asked, the direct requirements it
\* reconciled, and how it follows the call before it.
\*   fromEmpty  the project was empty when the call was made
\*   repeat     the call reconciles the direct requirements that the call
\*              before it reconciled and returned from
\*   undoes     the call is uninstall(X) and the call before it install(X),
\*              made on the empty project, which returned
Called(op, skill, requirement, d) ==
    LET returned == call # NoCall /\ call.reconciled /\ ~result.raised
    IN  [op |-> op, skill |-> skill, requirement |-> requirement,
         reconciled |-> d.err = NoError, key |-> d.key, direct |-> d.direct,
         fromEmpty |-> IsEmptyProject,
         repeat |-> returned /\ d.err = NoError /\ call.direct = d.direct,
         undoes |-> /\ returned /\ d.err = NoError
                    /\ op = "uninstall" /\ call.op = "install"
                    /\ call.fromEmpty /\ call.key = d.key]

Install(skill, requirement) ==
    \E out \in {install(skill, requirement, remote, disk, manifest, lock)} :
        /\ disk' = out.fs
        /\ manifest' = out.manifest
        /\ lock' = out.lock
        /\ result' = out.result
        /\ call' = Called("install", skill, requirement,
                          InstallDirect(skill, requirement, manifest))
        /\ UNCHANGED <<remote, direct, resolution, inst>>

Uninstall(skill) ==
    \E out \in {uninstall(skill, remote, disk, manifest, lock)} :
        /\ disk' = out.fs
        /\ manifest' = out.manifest
        /\ lock' = out.lock
        /\ result' = out.result
        /\ call' = Called("uninstall", skill, None, UninstallDirect(skill, manifest))
        /\ UNCHANGED <<remote, direct, resolution, inst>>

Next ==
    \/ \E input \in InstallInputs : Install(input[1], input[2])
    \/ \E skill \in UninstallInputs : Uninstall(skill)

Spec == Init /\ [][Next]_vars

(***************************************************************************)
(* Properties of the manager.                                              *)
(***************************************************************************)

Reconciled == call # NoCall /\ call.reconciled

Returned == Reconciled /\ ~result.raised

SkillDirExists(key) == Exists(disk, _skill_dir(key))

C5_InstallThenUninstall ==
    [][(/\ Returned /\ call.op = "install" /\ call.fromEmpty
        /\ call'.op = "uninstall" /\ call'.reconciled /\ call'.key = call.key
        /\ ~result'.raised) =>
          /\ manifest' = <<>>
          /\ lock' = <<>>
          /\ \A i \in 1..Len(result.installed) :
                /\ ~Exists(disk', _skill_dir(result.installed[i]))
                /\ SeqHas(result'.removed, result.installed[i])
          /\ \A key \in AllKeys : ~Exists(disk', _skill_dir(key))]_vars

\* The uninstall of a package that was installed, with a dependency, on the
\* empty project.
C5_Witness ==
    /\ Returned /\ call.undoes
    /\ Len(result.removed) >= 2
    /\ SeqHas(result.removed, call.key)

\* The errors that tell that a release is not to be had.
UnavailableKinds == {"notfound", "norelease", "nodownloadable"}

Alone(key) == resolve_dependency_graph(key :> call.direct[key], remote)

\* The direct packages of the call that cannot be reached on their own.
Unreachable ==
    {key \in DOMAIN call.direct : ~Alone(key).ok /\ Alone(key).err.kind \in UnavailableKinds}

Restrict(f, S) == [k \in S |-> f[k]]

RestResolves ==
    \/ DOMAIN call.direct = Unreachable
    \/ resolve_dependency_graph(Restrict(call.direct, (DOMAIN call.direct) \ Unreachable),
                                remote).ok

WarnedKeys == {result.warnings[i].key : i \in 1..Len(result.warnings)}

\* C6: a reconcile whose only trouble is direct packages that cannot be
\* reached (not found, or without a release that satisfies the constraints,
\* directly or through a dependency) returns a result with warnings.
C6_UnreachableNeverFails ==
    (Reconciled /\ Unreachable # {} /\ RestResolves) =>
        /\ ~result.raised
        /\ result.warnings # <<>>
        /\ Unreachable \subseteq WarnedKeys
        /\ Unreachable \cap DOMAIN manifest = {}

\* A reconcile that dropped a package whose dependency has no release and
\* installed another one.
C6_Witness ==
    /\ Returned /\ Unreachable # {} /\ RestResolves
    /\ \E i \in 1..Len(result.warnings) :
          /\ result.warnings[i].kind = "unresolved"
          /\ result.warnings[i].reason.key # result.warnings[i].key
    /\ DOMAIN manifest # {}

\* C7 as stated: when direct packages are not found or have no matching
\* release, a reconcile that returns has dropped exactly those, each with a
\* warning that names it; every other direct package is in the manifest
\* and installed.
C7_DropsExactlyTheUnreachable ==
    (Returned /\ Unreachable # {} /\ RestResolves) =>
        /\ DOMAIN manifest = (DOMAIN call.direct) \ Unreachable
        /\ WarnedKeys = Unreachable
        /\ \A key \in (DOMAIN call.direct) \ Unreachable :
              key \in DOMAIN lock /\ SkillDirExists(key)

FullResolution == resolve_dependency_graph(call.direct, remote)

ConflictFails ==
    /\ Reconciled /\ DOMAIN call.direct # {}
    /\ ~FullResolution.ok /\ FullResolution.err.kind = "conflict"

EntryNames ==
    { MarkerName,
      <<"p", "/">>,
      <<"p", "/">> \o MarkerName,
      <<"f">>,
      <<".", ".", "/", "x">>,
      <<"/", "e">>,
      <<"d", "/", ".", ".", "/", "f">>,
      <<"d", "/", ".", ".", "/", ".", ".", "/", "x">> }

\* The most entries an archive holds.
MaxEntries == 3

Archives == UNION {[1..n -> EntryNames] : n \in 0..MaxEntries}

NewRelease == SkillRelease(KeyAB, V200, <<>>, Url)

OldRelease == SkillRelease(KeyAB, V100, <<>>, Url)

\* The project with the old release installed.
OldInstalledFs == _install_archive(EmptyFs, OldRelease, GoodArchive, "none").fs

\* The failures of the file system while the destination is replaced.
Faults == {"none", "move", "meta"}

InitInstall ==
    /\ remote = CatalogRepo({})
    /\ direct = <<>>
    /\ resolution = NotRun
    /\ manifest = <<>>
    /\ lock = <<>>
    /\ call = NoCall
    /\ result = NoResult
    /\ disk \in {EmptyFs, OldInstalledFs}
    /\ \E names \in Archives :
          inst = [pc |-> "start", release |-> NewRelease, names |-> names, pos |-> 1,
                  written |-> {}, err |-> NoError, before |-> disk]

Dest == _skill_dir(inst.release.key)

\* _install_archive down to the loop of _safe_extract_zip.
BeginInstall ==
    /\ inst.pc = "start"
    /\ disk' = Mkdir(PrepareInstall(disk, Dest), UnpackRoot).fs
    /\ inst' = [inst EXCEPT !.pc = "extract"]
    /\ UNCHANGED <<remote, direct, resolution, manifest, lock, call, result>>

\* One round of the loop of _safe_extract_zip.
ExtractNext ==
    /\ inst.pc = "extract"
    /\ inst.pos <= Len(inst.names)
    /\ \E one \in {ExtractEntry(disk, UnpackRoot, inst.names[inst.pos],
                                ArchiveData(inst.release))} :
          /\ disk' = one.fs
          /\ inst' = IF one.err # NoError
                     THEN [inst EXCEPT !.pc = "raised", !.err = one.err,
                                       !.written = @ \cup one.wrote]
                     ELSE [inst EXCEPT !.pos = @ + 1, !.written = @ \cup one.wrote]
    /\ UNCHANGED <<remote, direct, resolution, manifest, lock, call, result>>

\* The root marker check and the replacement of the destination.
ReplaceDestination ==
    /\ inst.pc = "extract"
    /\ inst.pos > Len(inst.names)
    /\ \E source_root \in {SourceRoot(disk)}, fault \in Faults :
          IF ~source_root.found
          THEN /\ fault = "none"
               /\ disk' = disk
               /\ inst' = [inst EXCEPT !.pc = "raised",
                                       !.err = SkilldockError("nomarker", inst.release.key)]
          ELSE \E swapped \in {SwapInto(disk, source_root.path, Dest, inst.release, fault)} :
                  /\ disk' = swapped.fs
                  /\ inst' = IF swapped.err # NoError
                             THEN [inst EXCEPT !.pc = "raised", !.err = swapped.err]
                             ELSE [inst EXCEPT !.pc = "replaced"]
    /\ UNCHANGED <<remote, direct, resolution, manifest, lock, call, result>>

\* The end of the TemporaryDirectory block, on return and on an exception.
LeaveTemp ==
    /\ inst.pc \in {"raised", "replaced"}
    /\ disk' = CleanupTemp(disk)
    /\ inst' = [inst EXCEPT !.pc = IF inst.pc = "raised" THEN "failed" ELSE "done"]
    /\ UNCHANGED <<remote, direct, resolution, manifest, lock, call, result>>

NextInstall == BeginInstall \/ ExtractNext \/ ReplaceDestination \/ LeaveTemp

SpecInstall == InitInstall /\ [][NextInstall]_vars

(***************************************************************************)
(* Properties of the extraction.                                           *)
(***************************************************************************)

Installing == inst # NoInstall

\* An entry name that is absolute or leads out of the extraction root.
Unsafe(name) ==
    /\ name # <<>>
    /\ \/ name[1] = "/"
       \/ ~IsPrefix(UnpackRoot, ResolveParts(<<>>, UnpackRoot \o PathParts(name)))

FirstUnsafe(names) ==
    IF \E i \in 1..Len(names) : Unsafe(names[i])
    THEN CHOOSE i \in 1..Len(names) : Unsafe(names[i]) /\ \A j \in 1..(i - 1) : ~Unsafe(names[j])
    ELSE 0

OutsideTemp(fs) == {n \in fs : ~IsPrefix(TempDir, n.path)}

\* C9: the extraction of an archive never creates or overwrites a file or a
\* directory outside the extraction root; the first entry that is absolute
\* or resolves outside the root raises, no later entry is read, and the
\* install ends failed with the destination as it was.
C9_ExtractionStaysInRoot ==
    Installing =>
        /\ \A p \in inst.written : IsPrefix(UnpackRoot, p)
        /\ FirstUnsafe(inst.names) # 0 =>
              /\ inst.pos <= FirstUnsafe(inst.names)
              /\ inst.pc \in {"start", "extract", "raised", "failed"}
              /\ inst.pc \in {"raised", "failed"} =>
                    /\ inst.pos = FirstUnsafe(inst.names)
                    /\ inst.err.kind \in {"absolute", "invalidpath"}
              /\ {n \in disk : IsPrefix(Dest, n.path)}
                    = {n \in inst.before : IsPrefix(Dest, n.path)}

\* An install that failed on an entry that leads out of the root, after an
\* entry that was extracted, over an installed release.
C9_Witness ==
    /\ Installing /\ inst.pc = "failed"
    /\ inst.err.kind = "invalidpath"
    /\ inst.written # {}
    /\ Exists(disk, Dest)

\* C10 as stated: an archive with an unsafe entry is rejected before any
\* file is written; no entry of it is written anywhere, and the failed
\* extraction leaves the file system as it was.
C10_RejectedBeforeAnyWrite ==
    (Installing /\ FirstUnsafe(inst.names) # 0) =>
        /\ inst.written = {}
        /\ inst.pc = "failed" => disk = inst.before

\* What a file system holds at and below the path p.
TreeAt(fs, p) == {n \in fs : IsPrefix(p, n.path)}

\* The move of the unpacked tree or the writing of the metadata failed.
SwapFailed == Installing /\ inst.err.kind = "oserror"

\* C11: when the move of the unpacked tree into the destination or the
\* writing of the installed-metadata fails, the destination holds exactly
\* what it held before the install (nothing, if it did not exist) and no
\* backup directory remains; when the replacement succeeds the backup is
\* gone and the installed-metadata records the version of the release.
C11_InstallIsAtomic ==
    /\ SwapFailed =>
          /\ TreeAt(disk, Dest) = TreeAt(inst.before, Dest)
          /\ ~Exists(disk, BackupDir(Dest))
    /\ (Installing /\ inst.pc \in {"replaced", "done"}) =>
          /\ ~Exists(disk, BackupDir(Dest))
          /\ MetaVersion(disk, Dest) = inst.release.version

\* A failed replacement of an installed release, the old release back in
\* place.
C11_Witness ==
    /\ SwapFailed /\ inst.pc = "failed"
    /\ Exists(inst.before, Dest)
    /\ MetaVersion(disk, Dest) = OldRelease.version

\* Where the entries of an archive go, below the extraction root.
EntryPaths(names) ==
    {ResolveParts(<<>>, PathParts(names[i])) : i \in {j \in 1..Len(names) : names[j] # <<>>}}

\* The archive holds its root marker neither at its root nor at the root of
\* the one directory its entries lie in.
MarkerMissing(names) ==
    /\ <<MarkerName>> \notin EntryPaths(names)
    /\ ~ \E top \in {p[1] : p \in EntryPaths(names) \ {<<>>}} :
            /\ \A p \in EntryPaths(names) \ {<<>>} : p[1] = top
            /\ <<top, MarkerName>> \in EntryPaths(names)

RejectedArchive == FirstUnsafe(inst.names) # 0 \/ MarkerMissing(inst.names)

\* C13: an archive with an unsafe entry or without its root marker makes
\* _install_archive raise before the destination is touched: the installed
\* directory of the package, its files and its installed-metadata are as
\* they were at every step and after the call, the destination is never
\* replaced, and no backup directory exists.
C13_RejectedLeavesInstalled ==
    (Installing /\ RejectedArchive) =>
        /\ TreeAt(disk, Dest) = TreeAt(inst.before, Dest)
        /\ ~Exists(disk, BackupDir(Dest))
        /\ inst.pc \in {"start", "extract", "raised", "failed"}
        /\ inst.pc \in {"raised", "failed"} =>
              inst.err.kind \in {"absolute", "invalidpath", "nomarker"}

\* An archive without its root marker, rejected over an installed release.
C13_Witness ==
    /\ Installing /\ inst.pc = "failed"
    /\ inst.err.kind = "nomarker"
    /\ inst.names # <<>>
    /\ MetaVersion(disk, Dest) = OldRelease.version

\* The whole of _install_archive is what its steps add up to.
StepsMatchInstallArchive ==
    (Installing /\ inst.pc \in {"done", "failed"}) =>
        \E fault \in Faults :
           disk = _install_archive(inst.before, inst.release, inst.names, fault).fs

(***************************************************************************)
(* A call of install whose process is killed while it installs an archive, *)
(* and the call that is made after it.  The installation goes step by      *)
(* step; a killed process runs no except block, no finally block and no    *)
(* exit of the TemporaryDirectory block, and it has written neither the    *)
(* manifest nor the lock file, which _reconcile writes last.               *)
(***************************************************************************)

\* The catalog the calls are made against: two releases of a/b and of c/d.
CrashCatalog == {1, 2, 4, 5}

CrashInputs == { <<KeyAB, Caret1>>, <<KeyAB, Caret2>>, <<KeyCD, None>>, <<KeyTE, None>> }

\* The temporary directory a killed process leaves behind: mkdtemp gives
\* every call a name that is not in use, so a later call never unpacks
\* into it.
StaleTempDir == Append(TmpRoot, <<"s", "k", "i", "l", "l", "d", "o", "c", "k", "-", "t", "0">>)

\* The call of _install_archive for key in the install loop of _reconcile,
\* where the loop reaches one.
InstallCallOf(key, rel, current_skills, repo, acc) ==
    IF acc.err # NoError THEN [reached |-> FALSE]
    ELSE Let(CurrentVersion(acc.fs, current_skills, key), LAMBDA current_version :
             IF /\ Exists(acc.fs, _skill_dir(key))
                /\ current_version # <<>>
                /\ compare_versions(current_version, rel.version) = 0
             THEN [reached |-> FALSE]
             ELSE Let(download_archive(repo, rel), LAMBDA got :
                      IF got.err # NoError THEN [reached |-> FALSE]
                      ELSE [reached |-> TRUE, release |-> rel, names |-> got.zip,
                            fs |-> acc.fs]))

\* The install loop of _reconcile down to its i-th key.
InstallCallIn(loop, keys, repo, fs, lk, i) ==
    IF loop.err # NoError \/ i > Len(keys) THEN [reached |-> FALSE]
    ELSE InstallCallOf(keys[i], DictGet(loop.resolved, keys[i]), lk, repo,
                       InstallResolved(SubSeq(keys, 1, i - 1), loop.resolved, lk, repo,
                                       [err |-> NoError, fs |-> Mkdir(fs, SkillsDir).fs,
                                        installed |-> <<>>, updated |-> <<>>,
                                        removed |-> <<>>, unchanged |-> <<>>,
                                        warnings |-> loop.warnings]))

\* _reconcile down to the call of _install_archive for the i-th resolved key.
InstallCallAt(direct_requirements, repo, fs, lk, i) ==
    Let(ResolveEffective([key \in DOMAIN direct_requirements |->
                             normalize_requirement(direct_requirements[key])],
                         <<>>, repo), LAMBDA loop :
        InstallCallIn(loop, SortStrings(DictKeySet(loop.resolved)), repo, fs, lk, i))

\* The removal of a stale backup and the renaming of the destination to
\* the backup.
SetAsideExisting(fs, dest) ==
    Let(IF Exists(fs, BackupDir(dest)) THEN RmTree(fs, BackupDir(dest)) ELSE fs,
        LAMBDA cleared :
            IF Exists(fs, dest) THEN Rename(cleared, dest, BackupDir(dest)) ELSE cleared)

InitCrash ==
    /\ remote = CatalogRepo(CrashCatalog)
    /\ direct = <<>>
    /\ resolution = NotRun
    /\ ManagerIdle
    /\ inst = NoInstall

\* install(skill, requirement) down to its i-th call of _install_archive.
BeginCall(skill, requirement, i) ==
    /\ inst = NoInstall
    /\ \E d \in {InstallDirect(skill, requirement, manifest)} :
          /\ d.err = NoError
          /\ \E at \in {InstallCallAt(d.direct, remote, disk, lock, i)} :
                /\ at.reached
                /\ disk' = at.fs
                /\ inst' = [pc |-> "start", release |-> at.release, names |-> at.names,
                            pos |-> 1, written |-> {}, err |-> NoError, before |-> at.fs,
                            skill |-> skill, requirement |-> requirement,
                            called |-> disk, root |-> <<>>, at |-> "none"]
    /\ UNCHANGED <<remote, direct, resolution, manifest, lock, call, result>>

\* The root marker check, and the old directory set aside as the backup.
SetAside ==
    /\ inst.pc = "extract"
    /\ inst.pos > Len(inst.names)
    /\ \E source_root \in {SourceRoot(disk)} :
          IF ~source_root.found
          THEN /\ disk' = disk
               /\ inst' = [inst EXCEPT !.pc = "raised",
                                       !.err = SkilldockError("nomarker", inst.release.key)]
          ELSE /\ disk' = SetAsideExisting(disk, Dest)
               /\ inst' = [inst EXCEPT !.pc = "aside", !.root = source_root.path]
    /\ UNCHANGED <<remote, direct, resolution, manifest, lock, call, result>>

\* shutil.move(source_root, dest)
MoveStaged ==
    /\ inst.pc = "aside"
    /\ disk' = Rename(disk, inst.root, Dest)
    /\ inst' = [inst EXCEPT !.pc = "moved"]
    /\ UNCHANGED <<remote, direct, resolution, manifest, lock, call, result>>

\* _write_installed_meta(dest, release)
WriteMeta ==
    /\ inst.pc = "moved"
    /\ disk' = _write_installed_meta(disk, Dest, inst.release)
    /\ inst' = [inst EXCEPT !.pc = "written"]
    /\ UNCHANGED <<remote, direct, resolution, manifest, lock, call, result>>

\* The finally block: the backup is removed.
DropBackup ==
    /\ inst.pc = "written"
    /\ disk' = IF Exists(disk, BackupDir(Dest)) THEN RmTree(disk, BackupDir(Dest)) ELSE disk
    /\ inst' = [inst EXCEPT !.pc = "replaced"]
    /\ UNCHANGED <<remote, direct, resolution, manifest, lock, call, result>>

\* The process is killed between two steps of the installation.
Crash ==
    /\ inst.pc \in {"start", "extract", "aside", "moved", "written", "replaced"}
    /\ disk' = IF Exists(disk, TempDir) THEN Rename(disk, TempDir, StaleTempDir) ELSE disk
    /\ inst' = [inst EXCEPT !.pc = "crashed", !.at = inst.pc]
    /\ UNCHANGED <<remote, direct, resolution, manifest, lock, call, result>>

\* The call goes on to its end: the rest of the install loop, the prune
\* loop and the writing of the manifest and the lock file.
FinishCall ==
    /\ inst.pc \in {"done", "failed"}
    /\ \E out \in {install(inst.skill, inst.requirement, remote, inst.called,
                           manifest, lock)} :
          /\ disk' = out.fs
          /\ manifest' = out.manifest
          /\ lock' = out.lock
          /\ result' = out.result
    /\ call' = Called("install", inst.skill, inst.requirement,
                      InstallDirect(inst.skill, inst.requirement, manifest))
    /\ inst' = NoInstall
    /\ UNCHANGED <<remote, direct, resolution>>

\* The call of install that is made after the process was killed.
LaterInstall(skill, requirement) ==
    /\ inst.pc = "crashed"
    /\ \E out \in {install(skill, requirement, remote, disk, manifest, lock)} :
          /\ disk' = out.fs
          /\ manifest' = out.manifest
          /\ lock' = out.lock
          /\ result' = out.result
    /\ call' = Called("install", skill, requirement,
                      InstallDirect(skill, requirement, manifest))
    /\ inst' = [inst EXCEPT !.pc = "recovered"]
    /\ UNCHANGED <<remote, direct, resolution>>

\* The call of uninstall that is made after the process was killed.
LaterUninstall(skill) ==
    /\ inst.pc = "crashed"
    /\ \E out \in {uninstall(skill, remote, disk, manifest, lock)} :
          /\ disk' = out.fs
          /\ manifest' = out.manifest
          /\ lock' = out.lock
          /\ result' = out.result
    /\ call' = Called("uninstall", skill, None, UninstallDirect(skill, manifest))
    /\ inst' = [inst EXCEPT !.pc = "recovered"]
    /\ UNCHANGED <<remote, direct, resolution>>

NextCrash ==
    \/ \E input \in CrashInputs, i \in 1..2 : BeginCall(input[1], input[2], i)
    \/ BeginInstall
    \/ ExtractNext
    \/ SetAside
    \/ MoveStaged
    \/ WriteMeta
    \/ DropBackup
    \/ LeaveTemp
    \/ Crash
    \/ FinishCall
    \/ \E input \in CrashInputs : LaterInstall(input[1], input[2])
    \/ \E skill \in UninstallInputs : LaterUninstall(skill)

SpecCrash == InitCrash /\ [][NextCrash]_vars

\* The directory of release as _install_archive leaves it on a project
\* without it: the complete contents of the version.
CompleteTree(release, names) ==
    TreeAt(_install_archive(EmptyFs, release, names, "none").fs, _skill_dir(release.key))

\* The package whose installation was cut short.
CutKey == inst.release.key

Recovered == inst.pc = "recovered" /\ ~result.raised

\* The later call reports the package under installed, updated or unchanged.
ReportedInstalled ==
    \E i \in 1..Len(result.installed \o result.updated \o result.unchanged) :
        (result.installed \o result.updated \o result.unchanged)[i] = CutKey

\* The steps of an installation that is not cut short add up to the call.
CrashStepsMatchInstall ==
    inst.pc = "done" =>
        TreeAt(disk, Dest)
            = TreeAt(install(inst.skill, inst.requirement, remote, inst.called,
                             manifest, lock).fs, Dest)

\* C12 as stated: after a process is killed at any step of the installation
\* of a package, no later call reports the package as unchanged or installed
\* at version v, the version the lock file then records, while its
\* directory does not hold the complete contents of version v.
C12_CrashNeverLooksInstalled ==
    (Recovered /\ ReportedInstalled) =>
        /\ CutKey \in DOMAIN lock
        /\ \E rel \in {remote[CutKey].releases[j] : j \in 1..Len(remote[CutKey].releases)} :
              /\ rel.version = lock[CutKey].version
              /\ TreeAt(disk, _skill_dir(CutKey)) = CompleteTree(rel, inst.names)

(***************************************************************************)
(* Properties of the install loop, the prune loop and the files written.   *)
(***************************************************************************)

Items(seq) == {seq[i] : i \in 1..Len(seq)}

\* The version a project records for key: the version of the
\* installed-metadata of its directory and, without one, the version of its
\* lock entry; <<>> where there is neither.
RecordedVersion(fs, lk, key) ==
    IF /\ \E n \in fs : n.path = Append(_skill_dir(key), INSTALL_META_FILENAME) /\ n.kind = "file"
       /\ Strip((CHOOSE n \in fs :
                    n.path = Append(_skill_dir(key), INSTALL_META_FILENAME)).data) # <<>>
    THEN Strip((CHOOSE n \in fs :
                   n.path = Append(_skill_dir(key), INSTALL_META_FILENAME)).data)
    ELSE IF key \in DOMAIN lk THEN Strip(lk[key].version)
    ELSE <<>>

\* The package key is in place at the version: its directory exists and the
\* recorded version compares equal.
InPlace(fs, lk, key, version) ==
    /\ Exists(fs, _skill_dir(key))
    /\ RecordedVersion(fs, lk, key) # <<>>
    /\ compare_versions(RecordedVersion(fs, lk, key), version) = 0

OnlyHeld(fs, ns, keys) ==
    \A n \in fs : (IsPrefix(ns, n.path) /\ n.path # ns) =>
        \E key \in keys : IsPrefix(_skill_dir(key), n.path)

ManifestGraph(mf) ==
    IF DOMAIN mf = {} THEN <<>> ELSE resolve_dependency_graph(mf, remote).selected

\* C16: after a reconcile that returns, the lock file holds exactly the keys
\* of the graph that the accepted direct requirements resolve to, each at
\* its resolved version, whatever the lock file held before; and the
\* manifest holds the direct requirements the reconcile was given, those it
\* dropped with a warning left out, each with its specifier normalized.
C16_LockAndManifestRewritten ==
    [][Returned' =>
          /\ \A graph \in {ManifestGraph(manifest')} :
                /\ DOMAIN lock' = DictKeySet(graph)
                /\ \A key \in DOMAIN lock' : lock'[key].version = DictGet(graph, key).version
          /\ DOMAIN manifest' \subseteq DOMAIN call'.direct
          /\ (DOMAIN call'.direct) \ (DOMAIN manifest')
                = {result'.warnings[i].key :
                      i \in {j \in 1..Len(result'.warnings) :
                                result'.warnings[j].kind \in {"missing", "unresolved"}}}
          /\ \A key \in DOMAIN manifest' :
                manifest'[key] = normalize_requirement(call'.direct[key])
          /\ (DOMAIN manifest' # {}) => resolve_dependency_graph(manifest', remote).ok]_vars

\* A reconcile that returned with entries of the prior lock gone from the
\* lock file and others kept.
C16_Witness ==
    /\ Returned
    /\ result.removed # <<>>
    /\ \A i \in 1..Len(result.removed) : result.removed[i] \notin DOMAIN lock
    /\ lock # <<>>
    /\ manifest # <<>>

\* The full resolution of the direct requirements of the call fails, and
\* its error names no direct package as missing.
Unattributed ==
    /\ Reconciled /\ DOMAIN call.direct # {}
    /\ ~FullResolution.ok
    /\ MissingKey(FullResolution.err) \notin DOMAIN call.direct

\* The keys the result warns about as unresolved direct skills.
UnresolvedWarned ==
    {result.warnings[i].key :
        i \in {j \in 1..Len(result.warnings) : result.warnings[j].kind = "unresolved"}}

\* The direct packages of the call whose resolution on their own raises an
\* error that is not one of a release that is not to be had.
Broken ==
    {key \in DOMAIN call.direct :
        ~Alone(key).ok /\ ~_is_release_unavailable_error(Alone(key).err)}

DropRepos ==
    { WithSibling({1, 7}, Url),
      WithSibling({1, 10}, Url),
      WithSibling({1, 4, 5}, None),
      WithSibling({1, 6, 7}, Url),
      WithSibling({2, 4, 5, 7}, Url) }

\* The direct requirements of the manifest the project comes with.
DropManifests ==
    { (KeyAB :> Latest) @@ (KeyTE :> Latest) @@ (KeyAE :> Latest),
      (KeyAB :> Latest) @@ (KeyCD :> V100) @@ (KeyAE :> Latest),
      (KeyAB :> Latest) @@ (KeyTE :> Latest),
      (KeyCD :> Latest) @@ (KeyAE :> Latest),
      (KeyAB :> Latest) }

InitDrop ==
    /\ remote \in DropRepos
    /\ direct = <<>>
    /\ resolution = NotRun
    /\ disk = EmptyFs
    /\ manifest \in DropManifests
    /\ lock = <<>>
    /\ call = NoCall
    /\ result = NoResult
    /\ inst = NoInstall

SpecDrop == InitDrop /\ [][Next]_vars

\* The direct packages that are left resolve together, and are installed.
RestInstalled ==
    /\ ~result.raised
    /\ DOMAIN manifest = (DOMAIN call.direct) \ Unreachable
    /\ \A key \in (DOMAIN call.direct) \ Unreachable :
          key \in DOMAIN lock /\ SkillDirExists(key)

Relocated(releases, version, url) ==
    [i \in 1..Len(releases) |->
        IF releases[i].version = version
        THEN [releases[i] EXCEPT !.download_url = url]
        ELSE releases[i]]

\* The repository repo with the release of key at version served at url.
WithUrl(repo, key, version, url) ==
    [repo EXCEPT ![key].releases = Relocated(@, version, url)]

\* The repositories: in the first three the download of c/d 2.0.0 is
\* answered with the missing-URL message, in the fourth that of a/e 1.0.0
\* is, and in the last the download of c/d 2.0.0 fails otherwise.
SkipRepos ==
    { WithUrl(WithSibling({2, 4, 5}, Url), KeyCD, V200, UrlGone),
      WithUrl(WithSibling({3, 4, 5}, Url), KeyCD, V200, UrlGone),
      WithUrl(WithSibling({1, 4, 5, 7}, Url), KeyCD, V200, UrlGone),
      WithSibling({2, 4}, UrlGone),
      WithUrl(WithSibling({3, 4, 5}, Url), KeyCD, V200, UrlDown) }

InitSkip ==
    /\ remote \in SkipRepos
    /\ direct = <<>>
    /\ resolution = NotRun
    /\ ManagerIdle
    /\ inst = NoInstall

SpecSkip == InitSkip /\ [][Next]_vars

\* The repository repo with every download that is answered with the
\* missing-URL message served like any other.
Mended(repo) ==
    [key \in AllKeys |->
        [repo[key] EXCEPT !.releases =
            [i \in 1..Len(@) |->
                IF @[i].download_url = UrlGone
                THEN [@[i] EXCEPT !.download_url = Url]
                ELSE @[i]]]]

\* What the call c comes to on the mended repository.
Ideal(c) ==
    IF c.op = "install"
    THEN install(c.skill, c.requirement, Mended(remote), disk, manifest, lock)
    ELSE uninstall(c.skill, Mended(remote), disk, manifest, lock)

\* The download of the release of key at version is answered with the
\* missing-URL message.
GoneRelease(key, version) ==
    \E i \in 1..Len(remote[key].releases) :
        /\ remote[key].releases[i].version = version
        /\ remote[key].releases[i].download_url = UrlGone

\* The keys that result warns of as skipped for want of a download URL.
SkipWarned(res) ==
    {res.warnings[i].key : i \in {j \in 1..Len(res.warnings) : res.warnings[j].kind = "nourl"}}

\* C18: when the download of a resolved release is answered with the
\* missing-URL message, the reconcile goes on: it returns or raises as it
\* would if the download were served, warns of the key, leaves the
\* directory of the key as it was and reports the key in none of installed,
\* updated and unchanged; every other resolved key is reported as it would
\* be if the download were served and its directory ends up the same, and
\* the same keys are removed.
C18_SkipsOnlyTheKeyWithoutUrl ==
    [][Reconciled' =>
          \A ideal \in {Ideal(call')} :
              /\ result'.raised <=> ideal.result.raised
              /\ ~result'.raised =>
                    /\ Items(result'.removed) = Items(ideal.result.removed)
                    /\ \A key \in DOMAIN ideal.lock :
                          IF /\ GoneRelease(key, ideal.lock[key].version)
                             /\ ~InPlace(disk, lock, key, ideal.lock[key].version)
                          THEN /\ key \in SkipWarned(result')
                               /\ TreeAt(disk', _skill_dir(key)) = TreeAt(disk, _skill_dir(key))
                               /\ key \notin Items(result'.installed) \cup Items(result'.updated)
                                                 \cup Items(result'.unchanged)
                          ELSE /\ key \notin SkipWarned(result')
                               /\ TreeAt(disk', _skill_dir(key))
                                      = TreeAt(ideal.fs, _skill_dir(key))
                               /\ key \in Items(result'.installed)
                                      <=> key \in Items(ideal.result.installed)
                               /\ key \in Items(result'.updated)
                                      <=> key \in Items(ideal.result.updated)
                               /\ key \in Items(result'.unchanged)
                                      <=> key \in Items(ideal.result.unchanged)]_vars

\* A reconcile skipped a package whose directory holds an earlier version,
\* and installed another package.
C18_Witness ==
    /\ Returned
    /\ \E key \in SkipWarned(result) :
          /\ SkillDirExists(key)
          /\ key \in DOMAIN lock
          /\ GoneRelease(key, lock[key].version)
          /\ RecordedVersion(disk, <<>>, key) # lock[key].version
    /\ result.installed # <<>>

(***************************************************************************)
(* Resolution against repositories whose list leaves out download URLs     *)
(* and whose per-version lookup answers on its own.                        *)
(***************************************************************************)

V20 == <<"2", ".", "0">>

UrlBlank == <<" ">>

\* The repository repo with the per-version lookup of key answering
\* release for the version string version.
WithLookup(repo, key, version, release) ==
    [repo EXCEPT ![key].byVersion = DictSet(@, version, release)]

\* The repositories.  The list has c/d 2.0.0 without a download URL, or with
\* a blank one, or not at all; the lookup of c/d 2.0.0 answers the release
\* with a URL, without one, with a blank one, under the version 2.0, or it
\* answers c/d 1.0.0 or a release of a/b, or falls back to the list.
HydrateRepos ==
    { WithLookup(CatalogRepo({1, 6}), KeyCD, V200, SkillRelease(KeyCD, V200, <<>>, Url)),
      WithLookup(CatalogRepo({1, 6}), KeyCD, V200, SkillRelease(KeyCD, V200, <<>>, None)),
      WithLookup(CatalogRepo({1, 6}), KeyCD, V200, SkillRelease(KeyCD, V200, <<>>, UrlBlank)),
      WithLookup(CatalogRepo({4, 6, 7}), KeyCD, V200, SkillRelease(KeyCD, V100, <<>>, Url)),
      WithLookup(CatalogRepo({4, 6, 8}), KeyCD, V200, SkillRelease(KeyAB, V200, <<>>, Url)),
      WithLookup(CatalogRepo({3, 6, 11}), KeyCD, V200, SkillRelease(KeyCD, V20, <<>>, Url)),
      WithLookup(WithUrl(CatalogRepo({1, 5}), KeyCD, V200, UrlBlank),
                 KeyCD, V200, SkillRelease(KeyCD, V200, <<>>, Url)),
      WithLookup(CatalogRepo({2, 4}), KeyCD, V200, SkillRelease(KeyCD, V200, <<>>, Url)),
      CatalogRepo({3, 4, 6}),
      CatalogRepo({6, 9}) }

InitHydrate ==
    /\ remote \in HydrateRepos
    /\ direct \in DirectChoices
    /\ resolution = NotRun
    /\ ManagerIdle
    /\ inst = NoInstall

SpecHydrate == InitHydrate /\ [][NextResolve]_vars

\* The release has a download URL that is more than white space.
HasUrl(release) == Strip(release.download_url) # <<>>

\* The listed release has no download URL, and its version is looked up
\* again: the answer is a release of the same key and of an equal version.
Refetched(listed) ==
    /\ ~HasUrl(listed)
    /\ get_release(remote, listed.key, listed.version).found
    /\ get_release(remote, listed.key, listed.version).rel.key = listed.key
    /\ compare_versions(get_release(remote, listed.key, listed.version).rel.version,
                        listed.version) = 0

\* The listed release is a candidate: it has a download URL, or what the
\* lookup of its version answers has one.
ToBeHad(listed) ==
    \/ HasUrl(listed)
    \/ Refetched(listed)
          /\ HasUrl(get_release(remote, listed.key, listed.version).rel)

\* The release selected for key is a listed release, or the answer to the
\* lookup of a listed release without download URL, or the answer to the
\* lookup of a version that a requirement of key pins.
FromListOrLookup(key, release) ==
    \/ \E i \in 1..Len(remote[key].releases) :
          \/ remote[key].releases[i] = release
          \/ /\ Refetched(remote[key].releases[i])
             /\ get_release(remote, key, remote[key].releases[i].version).rel = release
    \/ \E req \in RequirementSet(key) :
          /\ _extract_exact_version(req.specifier).has
          /\ get_release(remote, key, _extract_exact_version(req.specifier).rhs).found
          /\ get_release(remote, key, _extract_exact_version(req.specifier).rhs).rel = release

\* The listed releases of the direct key that its direct requirement admits.
Admitted(key) ==
    {i \in 1..Len(remote[key].releases) :
        version_satisfies(remote[key].releases[i].version, DirectRequirementOf(key).specifier)}

\* The direct requirement of key pins a version whose lookup answers a
\* release that satisfies it and has a download URL.
PinAnswered(key) ==
    /\ _extract_exact_version(DirectRequirementOf(key).specifier).has
    /\ \E got \in {get_release(remote, key,
                               _extract_exact_version(DirectRequirementOf(key).specifier).rhs)} :
          /\ got.found
          /\ version_satisfies(got.rel.version, DirectRequirementOf(key).specifier)
          /\ HasUrl(got.rel)

\* The repository lists releases that the direct requirement of key admits,
\* and none of them is to be downloaded.
NoneDownloadable(key) ==
    /\ Admitted(key) # {}
    /\ \A i \in Admitted(key) : ~ToBeHad(remote[key].releases[i])
    /\ ~PinAnswered(key)

\* The direct key that the resolver takes up first.
FirstKey == CHOOSE key \in DOMAIN direct : \A other \in DOMAIN direct : StrCmp(key, other) <= 0

\* C19: every release of a solution has a download URL, and is a listed
\* release, the answer to the lookup of a listed release that has none (a
\* release of the same key and of an equal version), or the answer to the
\* lookup of a pinned version.  When no listed release that the direct
\* requirement of a key admits is to be downloaded, not even after the
\* lookup of its version, there is no solution, and for the key that is
\* resolved first the error is the "No downloadable release found" error of
\* that key, which names the versions of the admitted releases, each once
\* and in descending order.
C19_SolutionIsDownloadable ==
    Resolved =>
        /\ resolution.ok =>
              \A i \in 1..Len(Selected) :
                  /\ HasUrl(Selected[i].val)
                  /\ FromListOrLookup(Selected[i].key, Selected[i].val)
        /\ \A key \in DOMAIN direct :
              NoneDownloadable(key) =>
                  /\ ~resolution.ok
                  /\ key = FirstKey =>
                        /\ resolution.wrapped
                        /\ resolution.err.kind = "nodownloadable"
                        /\ resolution.err.key = key
                        /\ Items(resolution.err.versions)
                               = {remote[key].releases[i].version : i \in Admitted(key)}
                        /\ \A i, j \in 1..Len(resolution.err.versions) :
                              i < j => compare_versions(resolution.err.versions[i],
                                                        resolution.err.versions[j]) >= 0
                        /\ \A i, j \in 1..Len(resolution.err.versions) :
                              resolution.err.versions[i] = resolution.err.versions[j] => i = j

\* A solution holds a release that the list had without download URL and
\* the lookup of its version answered with one.
C19_Witness ==
    /\ Resolved /\ resolution.ok
    /\ \E i \in 1..Len(Selected) :
          /\ ~SeqHas(remote[Selected[i].key].releases, Selected[i].val)
          /\ \E j \in 1..Len(remote[Selected[i].key].releases) :
                /\ Refetched(remote[Selected[i].key].releases[j])
                /\ remote[Selected[i].key].releases[j].version = Selected[i].val.version
                /\ remote[Selected[i].key].releases[j].download_url = <<>>
          /\ Selected[i].val.download_url = Url

(***************************************************************************)
(* compare_versions on its own: three version strings are drawn, then      *)
(* compared with each other.                                               *)
(***************************************************************************)

\* The longest of the version strings that are made of VersionChars.
MaxVersionLen == 2

VersionChars == {"0", "1", "x"}

\* Version strings with dots, prereleases, build metadata and white space.
VersionCorpus ==
    { <<"1", ".", "0">>, <<"1", ".", "0", ".", "0">>, <<"1", "-", "a">>,
      <<"1", "-", "1">>, <<"1", "-", "a", ".", "1">>, <<"1", "+", "b">>,
      <<" ", "1">>, <<"1", ".", "x">>, <<"2">>, <<" ", "x">> }

VersionStrings ==
    UNION {[1..n -> VersionChars] : n \in 0..MaxVersionLen} \cup VersionCorpus

NotCompared == [raised |-> FALSE, compared |-> FALSE]

InitCompare ==
    /\ remote = CatalogRepo({})
    /\ direct = <<>>
    /\ resolution = NotRun
    /\ disk = EmptyFs
    /\ manifest = <<>>
    /\ lock = <<>>
    /\ call \in [op : {"compare"}, a : VersionStrings, b : VersionStrings, c : VersionStrings]
    /\ result = NotCompared
    /\ inst = NoInstall

Compare ==
    /\ call.op = "compare"
    /\ ~result.compared
    /\ result' = [raised |-> FALSE, compared |-> TRUE,
                  aa |-> compare_versions(call.a, call.a),
                  ab |-> compare_versions(call.a, call.b),
                  ba |-> compare_versions(call.b, call.a),
                  bc |-> compare_versions(call.b, call.c),
                  ac |-> compare_versions(call.a, call.c)]
    /\ UNCHANGED <<remote, direct, resolution, disk, manifest, lock, call, inst>>

NextCompare == Compare

SpecCompare == InitCompare /\ [][NextCompare]_vars

Parseable(version) == _split_version(version).ok

\* C20: compare_versions orders all strings: a string compares equal to
\* itself, the comparison of b with a is the negative of that of a with b,
\* and a <= b and b <= c give a <= c.
C20_CompareIsTotalOrder ==
    result.compared =>
        /\ result.aa = 0
        /\ result.ab = -result.ba
        /\ (result.ab <= 0 /\ result.bc <= 0) => result.ac <= 0

\* The part of the above that holds: the first two laws for all strings,
\* the third when the three strings parse or none of them does.
CompareOrdersAlike ==
    result.compared =>
        /\ result.aa = 0
        /\ result.ab = -result.ba
        /\ \/ Parseable(call.a) /\ Parseable(call.b) /\ Parseable(call.c)
           \/ ~Parseable(call.a) /\ ~Parseable(call.b) /\ ~Parseable(call.c)
           => ((result.ab <= 0 /\ result.bc <= 0) => result.ac <= 0)

\* The numeric core of a version string as it is written: what stands
\* before the build metadata and the prerelease, split at the dots.
WrittenCore(version) == SplitOn(Before(Before(Strip(version), "+"), "-"), ".")

\* The version grammar: the string is not blank and every component of its
\* numeric core is a string of digits.
InGrammar(version) ==
    /\ Strip(version) # <<>>
    /\ \A i \in 1..Len(WrittenCore(version)) : IsDigitStr(WrittenCore(version)[i])

\* The i-th number of the core, zero where the core has fewer than three
\* components and the i-th is not written.
CoreAt(version, i) ==
    IF i <= Len(WrittenCore(version)) THEN ToInt(WrittenCore(version)[i]) ELSE 0

CoreLen(version) == IF Len(WrittenCore(version)) < 3 THEN 3 ELSE Len(WrittenCore(version))

\* The core of a is below that of b: at the first place where they differ,
\* a has the smaller number or has come to its end.
CoreBelow(a, b) ==
    \E i \in 1..CoreLen(b) :
        /\ \A j \in 1..(i - 1) : j <= CoreLen(a) /\ CoreAt(a, j) = CoreAt(b, j)
        /\ \/ i > CoreLen(a)
           \/ CoreAt(a, i) < CoreAt(b, i)

HasPrerelease(version) == HasChar(Before(Strip(version), "+"), "-")

\* What the comparison of a with b has to be, as far as the rules say it.
ComparesAsRuled(a, b, sign) ==
    /\ sign \in {-1, 0, 1}
    /\ (~InGrammar(a) \/ ~InGrammar(b)) => sign = StrCmp(a, b)
    /\ (InGrammar(a) /\ InGrammar(b)) =>
          /\ CoreBelow(a, b) => sign = -1
          /\ CoreBelow(b, a) => sign = 1
          /\ (~CoreBelow(a, b) /\ ~CoreBelow(b, a)) =>
                /\ (~HasPrerelease(a) /\ ~HasPrerelease(b)) => sign = 0
                /\ (~HasPrerelease(a) /\ HasPrerelease(b)) => sign = 1
                /\ (HasPrerelease(a) /\ ~HasPrerelease(b)) => sign = -1

MaxPart == 1

\* The forms of a token: the range and comparison operators, a bare
\* version, and the tokens that name no version.
VersionedKinds == {"caret", "tilde", "ge", "le", "gt", "lt", "eq", "eqeq", "bare"}

Token(kind, x, y, z) == [kind |-> kind, x |-> x, y |-> y, z |-> z]

NoToken == Token("none", 0, 0, 0)

FirstTokens ==
    {Token(kind, x, y, z) : kind \in VersionedKinds, x \in 0..MaxPart, y \in 0..MaxPart,
                            z \in 0..MaxPart}
    \cup {Token("latest", 0, 0, 0), Token("star", 0, 0, 0), NoToken}

SecondTokens ==
    { NoToken, Token("lt", 1, 1, 0), Token("ge", 0, 1, 0), Token("caret", 0, 1, 0),
      Token("latest", 0, 0, 0), Token("bare", 1, 0, 0) }

\* The versions that are matched: every core of numbers up to MaxPart + 1,
\* a core of two numbers, a prerelease and a string that is no version.
MatchedVersions ==
    {FormatVersion(x, y, z) : x \in 0..(MaxPart + 1), y \in 0..(MaxPart + 1),
                              z \in 0..(MaxPart + 1)}
    \cup { <<"1", ".", "1">>, <<"1", ".", "0", ".", "0", "-", "a">>,
           <<"2", ".", "0", ".", "0", "-", "a">>, <<"x">> }

\* The token as it is written in a specifier.
Written(token) ==
    IF token.kind = "none" THEN <<>>
    ELSE IF token.kind = "latest" THEN Latest
    ELSE IF token.kind = "star" THEN <<"*">>
    ELSE (CASE token.kind = "caret" -> <<"^">>
            [] token.kind = "tilde" -> <<"~">>
            [] token.kind = "ge" -> <<">", "=">>
            [] token.kind = "le" -> <<"<", "=">>
            [] token.kind = "gt" -> <<">">>
            [] token.kind = "lt" -> <<"<">>
            [] token.kind = "eq" -> <<"=">>
            [] token.kind = "eqeq" -> <<"=", "=">>
            [] token.kind = "bare" -> <<>>)
         \o FormatVersion(token.x, token.y, token.z)

\* The specifier of a call: its tokens with the separator between them.
WrittenSpecifier(c) ==
    IF c.second = NoToken THEN Written(c.first)
    ELSE Written(c.first) \o c.sep \o Written(c.second)

NotAsked == [raised |-> FALSE, asked |-> FALSE]

InitSatisfy ==
    /\ remote = CatalogRepo({})
    /\ direct = <<>>
    /\ resolution = NotRun
    /\ disk = EmptyFs
    /\ manifest = <<>>
    /\ lock = <<>>
    /\ call \in {c \in [op : {"satisfies"}, version : MatchedVersions, first : FirstTokens,
                        second : SecondTokens, sep : {<<" ">>, <<",">>, <<",", " ">>}] :
                    /\ c.first = NoToken => c.second = NoToken
                    /\ c.second = NoToken => c.sep = <<" ">>}
    /\ result = NotAsked
    /\ inst = NoInstall

MatchVersion ==
    /\ call.op = "satisfies"
    /\ ~result.asked
    /\ result' = [raised |-> ~SpecifierParses(WrittenSpecifier(call)),
                  asked |-> TRUE,
                  value |-> version_satisfies(call.version, WrittenSpecifier(call))]
    /\ UNCHANGED <<remote, direct, resolution, disk, manifest, lock, call, inst>>

NextSatisfy == MatchVersion

SpecSatisfy == InitSatisfy /\ [][NextSatisfy]_vars

\* The version is at or above x.y.z.
AtLeast(version, x, y, z) == compare_versions(version, FormatVersion(x, y, z)) >= 0

\* The version is below x.y.z.
Below(version, x, y, z) == compare_versions(version, FormatVersion(x, y, z)) < 0

\* What the token asks of the version.
Meets(version, token) ==
    CASE token.kind \in {"none", "latest", "star"} -> TRUE
      [] token.kind = "caret" ->
            /\ AtLeast(version, token.x, token.y, token.z)
            /\ IF token.x > 0 THEN Below(version, token.x + 1, 0, 0)
               ELSE IF token.y > 0 THEN Below(version, 0, token.y + 1, 0)
               ELSE Below(version, 0, 0, token.z + 1)
      [] token.kind = "tilde" ->
            /\ AtLeast(version, token.x, token.y, token.z)
            /\ Below(version, token.x, token.y + 1, 0)
      [] token.kind = "ge" -> AtLeast(version, token.x, token.y, token.z)
      [] token.kind = "lt" -> Below(version, token.x, token.y, token.z)
      [] token.kind = "gt" ->
            compare_versions(version, FormatVersion(token.x, token.y, token.z)) > 0
      [] token.kind = "le" ->
            compare_versions(version, FormatVersion(token.x, token.y, token.z)) <= 0
      [] token.kind \in {"eq", "eqeq", "bare"} ->
            compare_versions(version, FormatVersion(token.x, token.y, token.z)) = 0

\* C22: version_satisfies returns, and is true exactly if the version meets
\* every token of the specifier: ^X.Y.Z asks for >=X.Y.Z and <(X+1).0.0, or
\* <0.(Y+1).0 when X is 0, or <0.0.(Z+1) when X and Y are 0; ~X.Y.Z asks for
\* >=X.Y.Z and <X.(Y+1).0; latest, * and the empty specifier ask nothing;
\* and a bare version asks for equality.
C22_SatisfiesEveryToken ==
    result.asked =>
        /\ ~result.raised
        /\ result.value <=> (Meets(call.version, call.first) /\ Meets(call.version, call.second))

\* A version met a caret token below 1.0.0 and fell to the second token.
C22_Witness ==
    /\ result.asked
    /\ call.first.kind = "caret" /\ call.first.x = 0 /\ call.first.y > 0
    /\ call.second.kind = "bare"
    /\ Meets(call.version, call.first)
    /\ ~Meets(call.version, call.second)
    /\ ~result.value

(***************************************************************************)
(* Resolution against repositories in which the order of the search shows. *)
(***************************************************************************)

V150 == <<"1", ".", "5", ".", "0">>

Below2Pin == <<"<", "2", ".", "0", ".", "0">>

\* What a repository holds of a key with the releases rels: the list
\* endpoint of a key without releases answers 404.
Serving(rels) ==
    [list |-> IF rels = <<>> THEN "notfound" ELSE "ok", releases |-> rels, byVersion |-> <<>>]

\* The repository with the listed releases ab of a/b, cd of c/d and te of t/e.
ListingRepo(ab, cd, te) ==
    [key \in AllKeys |->
        Serving(IF key = KeyAB THEN ab
                ELSE IF key = KeyCD THEN cd
                ELSE IF key = KeyTE THEN te
                ELSE <<>>)]

\* a/b 1.0.0 depends on c/d ^1.0.0 and a/b 2.0.0 on nothing; c/d has 1.0.0
\* and 1.5.0, listed in ascending order.
LowestFirstRepo ==
    ListingRepo(<<SkillRelease(KeyAB, V100, <<DependencySpec(KeyCD, Caret1, None)>>, Url),
                  SkillRelease(KeyAB, V200, <<>>, Url)>>,
                <<SkillRelease(KeyCD, V100, <<>>, Url), SkillRelease(KeyCD, V150, <<>>, Url)>>,
                <<>>)

\* a/b 2.0.0 depends on c/d ^2.0.0 and a/b 1.0.0 on c/d ^1.0.0; t/e 1.0.0
\* depends on c/d ^1.0.0; c/d has 2.0.0 and 1.5.0.
BacktrackRepo ==
    ListingRepo(<<SkillRelease(KeyAB, V200, <<DependencySpec(KeyCD, Caret2, None)>>, Url),
                  SkillRelease(KeyAB, V100, <<DependencySpec(KeyCD, Caret1, None)>>, Url)>>,
                <<SkillRelease(KeyCD, V200, <<>>, Url), SkillRelease(KeyCD, V150, <<>>, Url)>>,
                <<SkillRelease(KeyTE, V100, <<DependencySpec(KeyCD, Caret1, None)>>, Url)>>)

\* a/b 2.0.0 pins c/d to 2.0.0 and a/b 1.0.0 to 1.0.0; t/e 2.0.0 pins c/d
\* to 1.0.0 and t/e 1.0.0 depends on nothing: the key that is taken first
\* keeps its highest version.
PinnedRepo ==
    ListingRepo(<<SkillRelease(KeyAB, V100, <<DependencySpec(KeyCD, None, V100)>>, Url),
                  SkillRelease(KeyAB, V200, <<DependencySpec(KeyCD, None, V200)>>, Url)>>,
                <<SkillRelease(KeyCD, V100, <<>>, Url), SkillRelease(KeyCD, V200, <<>>, Url)>>,
                <<SkillRelease(KeyTE, V100, <<>>, Url),
                  SkillRelease(KeyTE, V200, <<DependencySpec(KeyCD, None, V100)>>, Url)>>)

\* t/e 2.0.0 asks for a/b below 2.0.0: a/b is selected at 2.0.0, dropped
\* when t/e 2.0.0 is selected, and selected again.
ReselectRepo ==
    ListingRepo(<<SkillRelease(KeyAB, V100, <<>>, Url), SkillRelease(KeyAB, V200, <<>>, Url)>>,
                <<SkillRelease(KeyCD, V100, <<>>, Url)>>,
                <<SkillRelease(KeyTE, V200, <<DependencySpec(KeyAB, Below2Pin, None)>>, Url),
                  SkillRelease(KeyTE, V100, <<>>, Url)>>)

OrderRepos ==
    {LowestFirstRepo, BacktrackRepo, PinnedRepo, ReselectRepo}
    \cup {CatalogRepo(S) : S \in ManagerCatalogs}

OrderDirects == DirectChoices \cup {KeyAB :> Caret1}

InitOrder ==
    /\ remote \in OrderRepos
    /\ direct \in OrderDirects
    /\ resolution = NotRun
    /\ ManagerIdle
    /\ inst = NoInstall

SpecOrder == InitOrder /\ [][NextResolve]_vars

\* The repository with the keys selected before the i-th held to their
\* selected releases and the key selected i-th held to the release rel.
Narrowed(i, rel) ==
    [key \in AllKeys |->
        IF \E m \in 1..(i - 1) : Selected[m].key = key
        THEN Serving(<<DictGet(SubSeq(Selected, 1, i - 1), key)>>)
        ELSE IF key = Selected[i].key THEN Serving(<<rel>>)
        ELSE remote[key]]

SelectedVersion(key) == DictGet(Selected, key).version

\* C23: the keys of the returned constraints start with the direct keys in
\* sorted order.  Every key has the highest version that the search does
\* not refute: with the keys selected before it held to their releases, no
\* listed release of a higher version leads to a solution, and the selected
\* releases themselves lead to the solution that was returned.  Direct a/b
\* ^1.0.0 with a/b 1.0.0 (depending on c/d ^1.0.0) and 2.0.0, and c/d 1.0.0
\* and 1.5.0, selects a/b 1.0.0 and c/d 1.5.0; and where two direct keys
\* pin a third to different versions, the first of them in sorted order
\* keeps its highest version.
C23_HighestFirstInKeyOrder ==
    (Resolved /\ resolution.ok) =>
        /\ SubSeq(DictKeys(resolution.constraints), 1, Cardinality(DOMAIN direct))
               = SortStrings(DOMAIN direct)
        /\ \A i \in 1..Len(Selected) :
              /\ \A j \in 1..Len(remote[Selected[i].key].releases) :
                    compare_versions(remote[Selected[i].key].releases[j].version,
                                     Selected[i].val.version) > 0
                       => ~resolve_dependency_graph(
                               direct, Narrowed(i, remote[Selected[i].key].releases[j])).ok
              /\ Items(resolve_dependency_graph(direct, Narrowed(i, Selected[i].val)).selected)
                     = Items(Selected)
        /\ (remote = LowestFirstRepo /\ direct = (KeyAB :> Caret1)) =>
              SelectedVersion(KeyAB) = V100 /\ SelectedVersion(KeyCD) = V150
        /\ (remote = PinnedRepo /\ direct = (KeyAB :> Latest) @@ (KeyTE :> Latest)) =>
              /\ SelectedVersion(KeyAB) = V200
              /\ SelectedVersion(KeyTE) = V100
              /\ SelectedVersion(KeyCD) = V200

\* The search gave up the highest version of a key for one that the
\* dependency of another key admits, and selected the highest version of
\* the dependency.
C23_Witness ==
    /\ Resolved /\ resolution.ok
    /\ remote = BacktrackRepo
    /\ direct = (KeyAB :> Latest) @@ (KeyTE :> Latest)
    /\ SelectedVersion(KeyAB) = V100
    /\ SelectedVersion(KeyCD) = V150

(***************************************************************************)
(* Resolution of exact pins against repositories whose list endpoint is    *)
(* down.                                                                   *)
(***************************************************************************)

\* The repository repo with the list endpoint of key failing.
ListDown(repo, key) == [repo EXCEPT ![key].list = "error"]

\* A repository that lists nothing and looks up one release only, under
\* every spelling of its version.
ExactOnlyRepo(release) ==
    [key \in AllKeys |->
        [list |-> "error",
         releases |-> IF key = release.key THEN <<release>> ELSE <<>>,
         byVersion |-> <<>>]]

\* The repositories: one release behind the lookup alone; catalogs with the
\* list of c/d down; the same catalogs with their lists up; and a catalog
\* whose lookup of c/d 2.0.0 answers another payload than its list.
PinRepos ==
    { ExactOnlyRepo(SkillRelease(KeyCD, V200, <<>>, Url)),
      ExactOnlyRepo(SkillRelease(KeyCD, V100, <<>>, Url)),
      ExactOnlyRepo(SkillRelease(KeyCD, V200, <<>>, None)),
      WithLookup(CatalogRepo({2, 4, 5}), KeyCD, V200, SkillRelease(KeyCD, V200, <<>>, UrlDown)),
      WithLookup(ListDown(CatalogRepo({1, 4}), KeyCD),
                 KeyCD, V200, SkillRelease(KeyCD, V200, <<>>, Url)) }
    \cup {ListDown(CatalogRepo(S), KeyCD) : S \in ManagerCatalogs}
    \cup {CatalogRepo(S) : S \in ManagerCatalogs}

InitPin ==
    /\ remote \in PinRepos
    /\ direct \in DirectChoices
    /\ resolution = NotRun
    /\ ManagerIdle
    /\ inst = NoInstall

SpecPin == InitPin /\ [][NextResolve]_vars

\* What the lookup answers for the version the direct requirement of key
\* pins.
PinAnswer(key) ==
    get_release(remote, key,
                _extract_exact_version(DirectRequirementOf(key).specifier).rhs).rel

\* The answer satisfies every requirement the resolution returns for key.
AnswerFits(key) ==
    \A req \in RequirementSet(key) : version_satisfies(PinAnswer(key).version, req.specifier)

\* C24: a direct key that pins one exact version, whose lookup answers a
\* release with a download URL that satisfies every constraint of the key,
\* is resolved to that answer; the resolution is the same when the list of
\* the key is down, so the list is not what it was taken from; and a pinned
\* package without dependencies resolves with its list down.
C24_PinResolvesWithoutList ==
    Resolved =>
        /\ \A key \in DOMAIN direct :
              (resolution.ok /\ PinAnswered(key) /\ AnswerFits(key)) =>
                  DictGet(Selected, key) = PinAnswer(key)
        /\ \A key \in DOMAIN direct :
              PinAnswered(key) =>
                  /\ resolve_dependency_graph(direct, ListDown(remote, key)).ok = resolution.ok
                  /\ resolve_dependency_graph(direct, ListDown(remote, key)).selected = Selected
        /\ \A key \in DOMAIN direct :
              (/\ DOMAIN direct = {key}
               /\ PinAnswered(key)
               /\ PinAnswer(key).dependencies = <<>>) => resolution.ok

\* The pinned c/d is resolved although its list is down, next to a/b that
\* depends on it.
C24_Witness ==
    /\ Resolved
    /\ resolution.ok
    /\ remote[KeyCD].list = "error"
    /\ KeyCD \in DOMAIN direct
    /\ PinAnswered(KeyCD)
    /\ DictHas(Selected, KeyAB)
    /\ DictGet(Selected, KeyCD) = PinAnswer(KeyCD)

(***************************************************************************)
(* The requests of ApiReleaseRepository and the token.                     *)
(***************************************************************************)

\* urlsplit(url).scheme: the characters before the first ":", lowered, where
\* they begin with a letter and are scheme characters throughout.
SchemeLen(url) ==
    IF /\ \E i \in 1..Len(url) : url[i] = ":"
       /\ IndexOf(url, ":") > 1
       /\ url[1] \in Upper \cup Lower
       /\ \A j \in 1..(IndexOf(url, ":") - 1) : url[j] \in AlNum \cup {"+", "-", "."}
    THEN IndexOf(url, ":") - 1
    ELSE 0

UrlScheme(url) == StrLower(SubSeq(url, 1, SchemeLen(url)))

\* What urlsplit is left with after the scheme and its colon.
AfterScheme(url) ==
    IF SchemeLen(url) = 0 THEN url ELSE SubSeq(url, SchemeLen(url) + 2, Len(url))

\* urlsplit(url).netloc: what follows a leading "//" up to the next "/".
UrlNetloc(url) ==
    IF ~StartsWith(AfterScheme(url), <<"/", "/">>) THEN <<>>
    ELSE Let(SubSeq(AfterScheme(url), 3, Len(AfterScheme(url))), LAMBDA rest :
             IF \E i \in 1..Len(rest) : rest[i] = "/"
             THEN SubSeq(rest, 1, IndexOf(rest, "/") - 1)
             ELSE rest)

\* _origin: None unless the URL has a scheme and a network location.
_origin(url) ==
    IF UrlScheme(url) = <<>> \/ UrlNetloc(url) = <<>> THEN None
    ELSE UrlScheme(url) \o <<":", "/", "/">> \o UrlNetloc(url)

_auth_for_url_AnyOrigin(token, base_url, url) == token # None

\* ApiReleaseRepository._auth_for_url, with the token and the base URL of
\* the client.
_auth_for_url(token, base_url, url) ==
    IF token = None THEN FALSE
    ELSE IF StartsWith(url, <<"/">>) THEN TRUE
    ELSE /\ _origin(url) # None
         /\ _origin(base_url) # None
         /\ _origin(url) = _origin(base_url)

Http == <<"h", "t", "t", "p">>
Https == <<"h", "t", "t", "p", "s">>

\* The URL SkilldockClient.request sends to.
RequestUrl(base_url, path) ==
    IF \/ StartsWith(path, Http \o <<":", "/", "/">>)
       \/ StartsWith(path, Https \o <<":", "/", "/">>)
    THEN path
    ELSE IF StartsWith(path, <<"/">>) THEN base_url \o path
    ELSE base_url \o <<"/">> \o path

\* A URL in parts: a scheme with its colon or nothing, slashes, a host and
\* a path.
UrlParts(scheme, slashes, host, path) ==
    [scheme |-> scheme, slashes |-> slashes, host |-> host, path |-> path]

WrittenUrl(parts) == parts.scheme \o parts.slashes \o parts.host \o parts.path

\* The parts are the parts the URL reads as: where no host is given, what
\* follows the scheme does not read as "//" and a host.
ReadsAsParts(parts) ==
    (parts.host = <<>> /\ parts.scheme # <<>>) =>
        ~(/\ StartsWith(parts.slashes \o parts.path, <<"/", "/">>)
          /\ Len(parts.slashes \o parts.path) > 2
          /\ (parts.slashes \o parts.path)[3] # "/")

\* The targets: API paths, download URLs on the host of the API, on its
\* host in capitals or with a port, on another host, with another scheme,
\* without scheme, and with a second host in the path.
TargetUrls ==
    {parts \in
        {UrlParts(scheme, slashes, host, path) :
            scheme \in {<<>>, Https \o <<":">>, <<"H", "T", "T", "P", "S", ":">>, Http \o <<":">>},
            slashes \in {<<>>, <<"/">>, <<"/", "/">>},
            host \in {<<>>, <<"a">>, <<"b">>, <<"A">>, <<"a", ":", "8">>},
            path \in {<<>>, <<"/", "v">>, <<"/", "/", "b", "/", "v">>}} :
        ReadsAsParts(parts)}

\* The base URLs of the client, as its base_url property returns them.
BaseUrls ==
    { UrlParts(Https \o <<":">>, <<"/", "/">>, <<"a">>, <<>>),
      UrlParts(Https \o <<":">>, <<"/", "/">>, <<"a">>, <<"/", "v">>),
      UrlParts(Https \o <<":">>, <<"/", "/">>, <<"b">>, <<>>),
      UrlParts(Http \o <<":">>, <<"/", "/">>, <<"a">>, <<>>) }

Tokens == {None, <<"t">>}

NotRequested == [raised |-> FALSE, asked |-> FALSE]

InitAuth ==
    /\ call \in [op : {"request"}, token : Tokens, base : BaseUrls, target : TargetUrls]
    /\ result = NotRequested
    /\ remote = CatalogRepo({})
    /\ direct = <<>>
    /\ resolution = NotRun
    /\ disk = EmptyFs
    /\ manifest = <<>>
    /\ lock = <<>>
    /\ inst = NoInstall

\* One request of the repository: _get_json with an API path, or
\* download_archive with the download URL of a release.
Request ==
    /\ call.op = "request"
    /\ ~result.asked
    /\ result' =
          [raised |-> FALSE,
           asked |-> TRUE,
           auth |-> _auth_for_url(call.token, WrittenUrl(call.base), WrittenUrl(call.target)),
           url |-> RequestUrl(WrittenUrl(call.base), WrittenUrl(call.target)),
           attached |-> /\ _auth_for_url(call.token, WrittenUrl(call.base),
                                         WrittenUrl(call.target))
                        /\ call.token # None]
    /\ UNCHANGED <<remote, direct, resolution, disk, manifest, lock, call, inst>>

NextAuth == Request

SpecAuth == InitAuth /\ [][NextAuth]_vars

\* The URL in parts names an origin: it has a scheme, "//" and a host.
IsAbsolute(parts) ==
    parts.scheme # <<>> /\ parts.slashes = <<"/", "/">> /\ parts.host # <<>>

\* Two absolute URLs of one origin: the same scheme, whatever its case, and
\* the same host and port.
SameOrigin(p, q) ==
    /\ IsAbsolute(p)
    /\ IsAbsolute(q)
    /\ StrLower(p.scheme) = StrLower(q.scheme)
    /\ p.host = q.host

\* The URL in parts is a path: it is written with a leading "/".
IsPath(parts) == WrittenUrl(parts) # <<>> /\ WrittenUrl(parts)[1] = "/"

\* C25: the token is attached only where one is configured and the target
\* is a path or an absolute URL of the origin of the base URL; a target on
\* another origin is requested without it, and so is every target when no
\* token is configured; a request that carries the token is sent to the
\* origin of the base URL.
C25_TokenOnlyToApiOrigin ==
    (call.op = "request" /\ result.asked) =>
        /\ result.attached =>
              /\ call.token # None
              /\ IsPath(call.target) \/ SameOrigin(call.target, call.base)
        /\ (IsAbsolute(call.target) /\ ~SameOrigin(call.target, call.base)) => ~result.attached
        /\ call.token = None => ~result.attached
        /\ result.attached =>
              \/ StartsWith(result.url, WrittenUrl(call.base) \o <<"/">>)
              \/ /\ StartsWith(result.url, StrLower(call.base.scheme) \o <<"/", "/">>
                                              \o call.base.host \o <<"/">>)
              \/ result.url = StrLower(call.base.scheme) \o <<"/", "/">> \o call.base.host

\* A download URL on the origin of the API was requested with the token.
C25_Witness ==
    /\ call.op = "request"
    /\ result.asked
    /\ result.attached
    /\ IsAbsolute(call.target)
    /\ call.target.path # <<>>
    /\ SameOrigin(call.target, call.base)

(***************************************************************************)
(* Dependency edges that declare a release version and a version           *)
(* requirement.                                                            *)
(***************************************************************************)

\* a/b 1.0.0 depends on c/d with release_version 1.0.0 and the requirement
\* version_requirement; c/d has 1.0.0, 1.5.0 and 2.0.0; t/e 1.0.0 depends on
\* c/d without either.
EdgeRepo(version_requirement) ==
    ListingRepo(<<SkillRelease(KeyAB, V100,
                               <<DependencySpec(KeyCD, version_requirement, V100)>>, Url)>>,
                <<SkillRelease(KeyCD, V100, <<>>, Url),
                  SkillRelease(KeyCD, V150, <<>>, Url),
                  SkillRelease(KeyCD, V200, <<>>, Url)>>,
                <<SkillRelease(KeyTE, V100, <<DependencySpec(KeyCD, None, None)>>, Url)>>)

EdgeRepos ==
    {EdgeRepo(Caret1), EdgeRepo(Caret2), EdgeRepo(None)} \cup OrderRepos

InitEdge ==
    /\ remote \in EdgeRepos
    /\ direct \in DirectChoices
    /\ resolution = NotRun
    /\ ManagerIdle
    /\ inst = NoInstall

SpecEdge == InitEdge /\ [][NextResolve]_vars

\* The requirements of the returned constraint list of key that carry the
\* source source, in the order of the list.
RequirementsFrom(key, source) ==
    SelectSeq(ReturnedConstraints(key), LAMBDA req : req.source = source)

\* The one specifier an edge contributes when the pin takes precedence.
PrecedingSpecifier(dep) ==
    IF dep.release_version # None THEN <<"=">> \o dep.release_version
    ELSE IF dep.version_requirement # None THEN dep.version_requirement
    ELSE Latest

\* C26: in a solution, every dependency edge of a selected release
\* contributes one requirement to the list of the dependency, tagged with
\* the key and version of the release: the pin of release_version where the
\* edge declares one, else its version_requirement, else "latest"; and an
\* edge whose pin is listed resolves whatever its version_requirement says.
C26_PinTakesPrecedence ==
    Resolved =>
        /\ resolution.ok =>
              \A i \in 1..Len(Selected) :
                 \A d \in 1..Len(Selected[i].val.dependencies) :
                    RequirementsFrom(Selected[i].val.dependencies[d].key,
                                     SourceOf(Selected[i].key, Selected[i].val.version))
                       = <<Requirement(PrecedingSpecifier(Selected[i].val.dependencies[d]),
                                       SourceOf(Selected[i].key, Selected[i].val.version))>>
        /\ (remote = EdgeRepo(Caret2) /\ direct = (KeyAB :> Latest)) => resolution.ok

\* What the code does: every edge contributes the pin of its
\* release_version and its version_requirement, both where it declares
\* both, and "latest" where it declares neither.
EdgeContributesAll ==
    (Resolved /\ resolution.ok) =>
        \A i \in 1..Len(Selected) :
           \A d \in 1..Len(Selected[i].val.dependencies) :
              /\ Len(RequirementsFrom(Selected[i].val.dependencies[d].key,
                                      SourceOf(Selected[i].key, Selected[i].val.version)))
                    = (IF Selected[i].val.dependencies[d].release_version # None THEN 1 ELSE 0)
                      + (IF Selected[i].val.dependencies[d].version_requirement # None
                         THEN 1 ELSE 0)
                      + (IF /\ Selected[i].val.dependencies[d].release_version = None
                            /\ Selected[i].val.dependencies[d].version_requirement = None
                         THEN 1 ELSE 0)
              /\ Selected[i].val.dependencies[d].release_version # None =>
                    RequirementsFrom(Selected[i].val.dependencies[d].key,
                                     SourceOf(Selected[i].key, Selected[i].val.version))[1].specifier
                       = <<"=">> \o Selected[i].val.dependencies[d].release_version

(***************************************************************************)
(* The root marker of an archive.                                          *)
(***************************************************************************)

\* The entry names of the archives: the marker at the top, in the
\* directory p, in the directory q and in a directory that bears its name,
\* the directories alone, and a file at the top.
MarkerEntryNames ==
    { MarkerName,
      <<"p", "/">>,
      <<"p", "/">> \o MarkerName,
      <<"q", "/">> \o MarkerName,
      <<"f">>,
      MarkerName \o <<"/">>,
      MarkerName \o <<"/">> \o MarkerName }

MarkerArchives == UNION {[1..n -> MarkerEntryNames] : n \in 0..MaxEntries}

InitMarker ==
    /\ remote = CatalogRepo({})
    /\ direct = <<>>
    /\ resolution = NotRun
    /\ manifest = <<>>
    /\ lock = <<>>
    /\ call = NoCall
    /\ result = NoResult
    /\ disk \in {EmptyFs, OldInstalledFs}
    /\ \E names \in MarkerArchives :
          inst = [pc |-> "start", release |-> NewRelease, names |-> names, pos |-> 1,
                  written |-> {}, err |-> NoError, before |-> disk]

SpecMarker == InitMarker /\ [][NextInstall]_vars

\* Where the file entries of an archive go, below the extraction root.
FilePaths(names) ==
    {ResolveParts(<<>>, PathParts(names[i])) :
        i \in {j \in 1..Len(names) : names[j] # <<>> /\ ~EndsWithSlash(names[j])}}

\* The names at the top level of the extracted tree.
TopNames(names) == {p[1] : p \in EntryPaths(names) \ {<<>>}}

\* The top-level name is a directory of the tree: an entry lies below it,
\* or it is a directory entry.
TopIsDir(names, top) ==
    \E i \in 1..Len(names) :
       /\ names[i] # <<>>
       /\ ResolveParts(<<>>, PathParts(names[i])) # <<>>
       /\ ResolveParts(<<>>, PathParts(names[i]))[1] = top
       /\ Len(ResolveParts(<<>>, PathParts(names[i]))) > 1 \/ EndsWithSlash(names[i])

\* The marker is a file at the top level of the tree.
MarkerAtTop(names) == <<MarkerName>> \in FilePaths(names)

\* The top level of the tree is one directory and nothing else, and the
\* marker is a file in it.
WrappedOnce(names) ==
    \E top \in TopNames(names) :
       /\ TopNames(names) = {top}
       /\ TopIsDir(names, top)
       /\ <<top, MarkerName>> \in FilePaths(names)

\* The top level of the tree has one directory, next to files or not, and
\* the marker is a file in it.
OneTopDirectory(names) ==
    \E top \in TopNames(names) :
       /\ \A other \in TopNames(names) : TopIsDir(names, other) => other = top
       /\ TopIsDir(names, top)
       /\ <<top, MarkerName>> \in FilePaths(names)

\* Every entry of the archive was extracted and the root marker check made.
MarkerChecked ==
    /\ Installing
    /\ inst.pos > Len(inst.names)
    /\ inst.pc \in {"raised", "failed", "replaced", "done"}

\* The files of the archive below the directory root are the files of the
\* destination, next to the installed-metadata.
InstalledFrom(root) ==
    /\ \A p \in FilePaths(inst.names) :
          IsPrefix(root, p) => IsFile(disk, Dest \o SubSeq(p, Len(root) + 1, Len(p)))
    /\ IsFile(disk, Append(Dest, MarkerName))
    /\ MetaVersion(disk, Dest) = inst.release.version

\* C27 as stated: the archive is rejected for its marker unless the marker
\* is a file at the top level or the tree has exactly one top-level
\* directory, which holds the marker.
C27_InstallsIffMarkerOrOneDirectory ==
    MarkerChecked =>
        (inst.err.kind = "nomarker"
            <=> ~(MarkerAtTop(inst.names) \/ OneTopDirectory(inst.names)))

\* C27: the archive is rejected for its marker unless the marker is a file
\* at the top level or the top level is one directory and nothing else,
\* which holds the marker; an installed archive is installed from the top
\* level in the first case and from that directory in the second.
C27_InstallsIffMarkerOrWrappedOnce ==
    MarkerChecked =>
        /\ inst.err.kind = "nomarker"
              <=> ~(MarkerAtTop(inst.names) \/ WrappedOnce(inst.names))
        /\ (inst.pc \in {"replaced", "done"} /\ MarkerAtTop(inst.names)) => InstalledFrom(<<>>)
        /\ (inst.pc \in {"replaced", "done"} /\ ~MarkerAtTop(inst.names)) =>
              \E top \in TopNames(inst.names) : InstalledFrom(<<top>>)

\* An archive wrapped in the directory p, installed from p.
C27_Witness ==
    /\ MarkerChecked
    /\ inst.pc = "done"
    /\ ~MarkerAtTop(inst.names)
    /\ WrappedOnce(inst.names)
    /\ TopNames(inst.names) = {<<"p">>}
    /\ ~IsFile(disk, Dest \o <<<<"p">>, MarkerName>>)

(***************************************************************************)
(* ApiReleaseRepository: the repository that asks a server and remembers   *)
(* its answers.                                                            *)
(***************************************************************************)

\* ApiReleaseRepository.__init__.  server[key] = [list, releases, byVersion]
\* is what the server answers: the list endpoint of key answers "ok" with
\* releases, 404 ("notfound") or another failure ("error"); the per-version
\* endpoint answers the release under byVersion, or 404.  list_fetches and
\* version_fetches count the requests sent to the two endpoints.
ApiReleaseRepository(server) ==
    [server |-> server, list_cache |-> <<>>, release_cache |-> <<>>,
     list_fetches |-> <<>>, version_fetches |-> <<>>]

\* How often k was counted in the dict d.
CountOf(d, k) == IF DictHas(d, k) THEN DictGet(d, k) ELSE 0

\* The releases of a list response with the first release of every version
\* string kept (the set seen of list_releases).
FirstOfEachVersion(releases) ==
    SelectSeq([i \in 1..Len(releases) |-> [at |-> i, rel |-> releases[i]]],
              LAMBDA r : \A j \in 1..(r.at - 1) : releases[j].version # r.rel.version)

\* self._release_cache[(ref.key, rel.version)] = rel, for every release.
RECURSIVE CacheReleases(_, _, _)
CacheReleases(cache, key, releases) ==
    IF releases = <<>> THEN cache
    ELSE CacheReleases(DictSet(cache, <<key, releases[1].version>>,
                               [found |-> TRUE, rel |-> releases[1]]),
                       key, Tail(releases))

\* ApiReleaseRepository.list_releases: the repository after the call, the
\* error raised and the releases returned.
Api_list_releases(api, key) ==
    IF DictHas(api.list_cache, key)
    THEN [api |-> api, err |-> NoError, releases |-> DictGet(api.list_cache, key)]
    ELSE Let([api EXCEPT !.list_fetches = DictSet(@, key, CountOf(@, key) + 1)],
             LAMBDA fetched :
         Let(SortByVersionDesc([i \in 1..Len(FirstOfEachVersion(api.server[key].releases)) |->
                                   FirstOfEachVersion(api.server[key].releases)[i].rel]),
             LAMBDA releases :
             IF api.server[key].list = "notfound"
             THEN [api |-> fetched, err |-> SkilldockError("notfound", key), releases |-> <<>>]
             ELSE IF api.server[key].list = "error"
             THEN [api |-> fetched, err |-> SkilldockError("listerror", key), releases |-> <<>>]
             ELSE [api |-> [fetched EXCEPT
                               !.release_cache = CacheReleases(@, key, releases),
                               !.list_cache = DictSet(@, key, releases)],
                   err |-> NoError,
                   releases |-> releases]))

\* The 404 branch of get_release: the first listed release of an equal
\* version, or None, remembered under the version asked for.
ListedFallback(listing, key, version) ==
    IF listing.err # NoError
    THEN [api |-> listing.api, err |-> listing.err, got |-> [found |-> FALSE, rel |-> <<>>]]
    ELSE Let({i \in 1..Len(listing.releases) :
                 compare_versions(listing.releases[i].version, version) = 0}, LAMBDA hits :
         Let(IF hits = {} THEN [found |-> FALSE, rel |-> <<>>]
             ELSE [found |-> TRUE,
                   rel |-> listing.releases[CHOOSE i \in hits : \A j \in hits : i <= j]],
             LAMBDA got :
                 [api |-> [listing.api EXCEPT
                              !.release_cache = DictSet(@, <<key, version>>, got)],
                  err |-> NoError,
                  got |-> got]))

\* ApiReleaseRepository.get_release: found = FALSE stands for None.
Api_get_release(api, key, version) ==
    IF DictHas(api.release_cache, <<key, version>>)
    THEN [api |-> api, err |-> NoError, got |-> DictGet(api.release_cache, <<key, version>>)]
    ELSE Let([api EXCEPT !.version_fetches =
                             DictSet(@, <<key, version>>, CountOf(@, <<key, version>>) + 1)],
             LAMBDA fetched :
             IF DictHas(api.server[key].byVersion, version)
             THEN [api |-> [fetched EXCEPT
                               !.release_cache =
                                   DictSet(@, <<key, version>>,
                                           [found |-> TRUE,
                                            rel |-> [DictGet(api.server[key].byVersion, version)
                                                        EXCEPT !.key = key]])],
                   err |-> NoError,
                   got |-> [found |-> TRUE,
                            rel |-> [DictGet(api.server[key].byVersion, version)
                                        EXCEPT !.key = key]]]
             ELSE ListedFallback(Api_list_releases(fetched, key), key, version))

\* _hydrate_release_from_version_lookup on this repository.
ApiHydrate(api, release) ==
    IF _has_download_url(release) THEN [api |-> api, err |-> NoError, rel |-> release]
    ELSE Let(Api_get_release(api, release.key, release.version), LAMBDA hydrated :
             [api |-> hydrated.api,
              err |-> hydrated.err,
              rel |-> IF hydrated.err # NoError \/ ~hydrated.got.found THEN release
                      ELSE IF hydrated.got.rel.key # release.key THEN release
                      ELSE IF compare_versions(hydrated.got.rel.version, release.version) # 0
                      THEN release
                      ELSE hydrated.got.rel])

\* [_hydrate_release_from_version_lookup(r, repo=repo) for r in matched]
RECURSIVE ApiHydrateAll(_, _, _)
ApiHydrateAll(api, matched, hydrated) ==
    IF matched = <<>> THEN [api |-> api, err |-> NoError, rels |-> hydrated]
    ELSE Let(ApiHydrate(api, matched[1]), LAMBDA one :
             IF one.err # NoError THEN [api |-> one.api, err |-> one.err, rels |-> <<>>]
             ELSE ApiHydrateAll(one.api, Tail(matched), Append(hydrated, one.rel)))

\* The list path of _candidate_releases on this repository.
ApiListedCandidates(api, key, requirements) ==
    Let(Api_list_releases(api, key), LAMBDA listing :
    Let(FilterSatisfying(SortByVersionDesc(listing.releases), requirements), LAMBDA matched :
    Let(ApiHydrateAll(listing.api, matched, <<>>), LAMBDA hydrated :
        IF listing.err # NoError
        THEN [api |-> listing.api, err |-> listing.err, rels |-> <<>>]
        ELSE IF hydrated.err # NoError
        THEN [api |-> hydrated.api, err |-> hydrated.err, rels |-> <<>>]
        ELSE IF FilterDownloadable(hydrated.rels) # <<>>
        THEN [api |-> hydrated.api, err |-> NoError, rels |-> FilterDownloadable(hydrated.rels)]
        ELSE IF matched # <<>>
        THEN [api |-> hydrated.api,
              err |-> [kind |-> "nodownloadable", key |-> key,
                       versions |-> AttemptedVersions(matched)],
              rels |-> <<>>]
        ELSE [api |-> hydrated.api, err |-> SkilldockError("norelease", key), rels |-> <<>>])))

\* _candidate_releases on this repository.
Api_candidate_releases(api, key, requirements) ==
    IF \E i \in 1..Len(requirements) : ~SpecifierParses(requirements[i].specifier)
    THEN [api |-> api, err |-> SkilldockError("invalidreq", key), rels |-> <<>>]
    ELSE IF Cardinality(ExactVersions(requirements)) > 1
    THEN [api |-> api, err |-> SkilldockError("conflict", key), rels |-> <<>>]
    ELSE IF Cardinality(ExactVersions(requirements)) = 0
    THEN ApiListedCandidates(api, key, requirements)
    ELSE Let(Api_get_release(api, key, CHOOSE v \in ExactVersions(requirements) : TRUE),
             LAMBDA pinned :
             IF pinned.err # NoError
             THEN [api |-> pinned.api, err |-> pinned.err, rels |-> <<>>]
             ELSE IF /\ pinned.got.found
                     /\ _version_satisfies_all(pinned.got.rel.version, requirements) = "T"
                     /\ _has_download_url(pinned.got.rel)
             THEN [api |-> pinned.api, err |-> NoError, rels |-> <<pinned.got.rel>>]
             ELSE ApiListedCandidates(pinned.api, key, requirements))

\* The servers: the list of c/d has 2.0.0 without a download URL and the
\* per-version endpoint supplies it, or does not; a/b is listed with its
\* dependencies, or its list fails; t/e is not on the server.
ApiServers ==
    { WithLookup(CatalogRepo({1, 6}), KeyCD, V200, SkillRelease(KeyCD, V200, <<>>, Url)),
      WithLookup(CatalogRepo({2, 4, 6}), KeyCD, V200, SkillRelease(KeyCD, V200, <<>>, Url)),
      WithLookup(CatalogRepo({1, 5}), KeyCD, V200, SkillRelease(KeyCD, V200, <<>>, UrlDown)),
      CatalogRepo({1, 6}),
      CatalogRepo({1, 4, 5}),
      ListDown(CatalogRepo({2, 4}), KeyAB) }

\* The keys and the specifiers the repository is asked about.
ApiKeys == {KeyAB, KeyCD, KeyTE}

ApiSpecifiers == {Latest, V200, V20, Caret2}

\* The most calls one repository object serves.
MaxCalls == 3

InitApi ==
    /\ remote \in {ApiReleaseRepository(server) : server \in ApiServers}
    /\ direct = <<>>
    /\ resolution = NotRun
    /\ ManagerIdle
    /\ inst = NoInstall

\* The calls served so far.
Served == IF call = NoCall THEN 0 ELSE call.nr

\* A call of list_releases.
ListReleases ==
    \E key \in ApiKeys :
       /\ Served < MaxCalls
       /\ call' = [op |-> "list_releases", key |-> key, nr |-> Served + 1]
       /\ remote' = Api_list_releases(remote, key).api
       /\ result' = [raised |-> Api_list_releases(remote, key).err # NoError,
                     err |-> Api_list_releases(remote, key).err,
                     releases |-> Api_list_releases(remote, key).releases]
       /\ UNCHANGED <<direct, resolution, disk, manifest, lock, inst>>

\* A call of get_release with the version of a pin.
GetRelease ==
    \E key \in ApiKeys, version \in {V100, V200, V20} :
       /\ Served < MaxCalls
       /\ call' = [op |-> "get_release", key |-> key, version |-> version, nr |-> Served + 1]
       /\ remote' = Api_get_release(remote, key, version).api
       /\ result' = [raised |-> Api_get_release(remote, key, version).err # NoError,
                     err |-> Api_get_release(remote, key, version).err,
                     got |-> Api_get_release(remote, key, version).got]
       /\ UNCHANGED <<direct, resolution, disk, manifest, lock, inst>>

\* A call of _candidate_releases by the resolver, with one requirement.
CandidateReleases ==
    \E key \in ApiKeys, specifier \in ApiSpecifiers :
       /\ Served < MaxCalls
       /\ call' = [op |-> "candidates", key |-> key, specifier |-> specifier,
                   nr |-> Served + 1]
       /\ \E out \in {Api_candidate_releases(
                          remote, key, <<Requirement(specifier, DirectSource)>>)} :
             /\ remote' = out.api
             /\ result' = [raised |-> out.err # NoError, err |-> out.err, rels |-> out.rels]
       /\ UNCHANGED <<direct, resolution, disk, manifest, lock, inst>>

NextApi == ListReleases \/ GetRelease \/ CandidateReleases

SpecApi == InitApi /\ [][NextApi]_vars

\* The per-version endpoint of the server supplies the version of key with
\* a download URL.
Supplied(key, version) ==
    /\ DictHas(remote.server[key].byVersion, version)
    /\ HasUrl(DictGet(remote.server[key].byVersion, version))

\* The list of the server has the version of key without a download URL.
ListedBare(key, version) ==
    /\ remote.server[key].list = "ok"
    /\ \E i \in 1..Len(remote.server[key].releases) :
          /\ remote.server[key].releases[i].version = version
          /\ ~HasUrl(remote.server[key].releases[i])

\* C28: where the list of a key omits the download URL of a version and the
\* per-version endpoint supplies it, get_release after list_releases
\* answers a release with the download URL, and the candidates of a
\* requirement that the version satisfies hold that version with the
\* download URL.
C28_HydrationRefetches ==
    /\ \A version \in {V100, V200} :
          (/\ call # NoCall
           /\ call.op = "get_release"
           /\ call.version = version
           /\ DictHas(remote.list_cache, call.key)
           /\ ListedBare(call.key, version)
           /\ Supplied(call.key, version)) =>
              result.got.found /\ HasUrl(result.got.rel)
    /\ \A version \in {V100, V200} :
          (/\ call # NoCall
           /\ call.op = "candidates"
           /\ ListedBare(call.key, version)
           /\ Supplied(call.key, version)
           /\ version_satisfies(version, call.specifier)) =>
              /\ ~result.raised
              /\ \E i \in 1..Len(result.rels) :
                    result.rels[i].version = version /\ HasUrl(result.rels[i])

\* What the code does: once the list of a key is answered, get_release
\* answers the listed release for every listed version.
ListedAnswersLookup ==
    (/\ call # NoCall
     /\ call.op = "get_release"
     /\ DictHas(remote.list_cache, call.key)
     /\ \E i \in 1..Len(remote.server[call.key].releases) :
           remote.server[call.key].releases[i].version = call.version) =>
        /\ result.got.found
        /\ SeqHas(remote.server[call.key].releases, result.got.rel)

\* C29: the list endpoint is asked at most once for a key and the
\* per-version endpoint at most once for a key and version, whether the
\* server answered with releases or with 404.
C29_FetchedAtMostOnce ==
    /\ \A key \in ApiKeys :
          remote.server[key].list \in {"ok", "notfound"} =>
              CountOf(remote.list_fetches, key) <= 1
    /\ \A key \in ApiKeys, version \in {V100, V200, V20} :
          remote.server[key].list \in {"ok", "notfound"} =>
              CountOf(remote.version_fetches, <<key, version>>) <= 1

\* What the code does: a list that was answered is asked once, and so is a
\* version whose request did not end in a failing list.
AnsweredFetchedOnce ==
    /\ \A key \in ApiKeys :
          remote.server[key].list = "ok" => CountOf(remote.list_fetches, key) <= 1
    /\ \A key \in ApiKeys, version \in {V100, V200, V20} :
          (\/ remote.server[key].list = "ok"
           \/ DictHas(remote.server[key].byVersion, version)) =>
              CountOf(remote.version_fetches, <<key, version>>) <= 1

(***************************************************************************)
(* One reconcile in its phases: the install loop, the prune loop, the      *)
(* writing of the manifest and the writing of the lock file, and a         *)
(* process that is killed between two of them.                             *)
(***************************************************************************)

PhaseCatalogs == { {1, 2, 4, 5}, {1, 2, 4, 5, 7} }

\* The calls: install with a --version argument, and uninstall.
PhaseCalls ==
    { <<"install", KeyAB, Caret1>>, <<"install", KeyAB, Caret2>>,
      <<"install", KeyTE, None>>,
      <<"uninstall", KeyAB, None>>, <<"uninstall", KeyTE, None>> }

\* The most calls that are made on one project.
MaxReconciles == 2

\* The projects the calls are made on: the empty one, and the ones that a
\* call of install on the empty project leaves.
InitPhases ==
    /\ remote \in {CatalogRepo(S) : S \in PhaseCatalogs}
    /\ direct = <<>>
    /\ resolution = NotRun
    /\ call = NoCall
    /\ result = NoResult
    /\ inst = [pc |-> "idle", nr |-> 0, kills |-> 0]
    /\ \E input \in {c \in PhaseCalls : c[1] = "install"} :
       \E out \in {install(input[2], input[3], remote, EmptyFs, <<>>, <<>>),
                   Raised(NoError, EmptyFs, <<>>, <<>>)} :
          /\ disk = out.fs
          /\ manifest = out.manifest
          /\ lock = out.lock

\* The direct requirements a call reconciles.
DirectOf(op, skill, requirement, mf) ==
    IF op = "install" THEN InstallDirect(skill, requirement, mf) ELSE UninstallDirect(skill, mf)

\* The lists of the result, empty.
NoneYet(fs, warnings) ==
    [err |-> NoError, fs |-> fs, installed |-> <<>>, updated |-> <<>>, removed |-> <<>>,
     unchanged |-> <<>>, warnings |-> warnings]

\* install or uninstall down to the install loop of _reconcile: the lock
\* file is loaded and the graph resolved.
BeginReconcile(op, skill, requirement) ==
    /\ inst.pc \in {"idle", "returned", "cut"}
    /\ inst.nr < MaxReconciles
    /\ DirectOf(op, skill, requirement, manifest).err = NoError
    /\ \E loop \in {ResolveEffective(
                       [key \in DOMAIN DirectOf(op, skill, requirement, manifest).direct |->
                           normalize_requirement(
                               DirectOf(op, skill, requirement, manifest).direct[key])],
                       <<>>, remote)} :
          /\ inst' = [pc |-> IF loop.err # NoError THEN "returned" ELSE "installs",
                      nr |-> inst.nr + 1,
                      kills |-> inst.kills,
                      loop |-> loop,
                      acc |-> NoneYet(<<>>, loop.warnings),
                      start |-> [fs |-> disk, manifest |-> manifest, lock |-> lock],
                      before |-> IF inst.pc = "cut"
                                 THEN [cut |-> inst.at, call |-> call]
                                 ELSE [cut |-> "none", call |-> call]]
          /\ result' = IF loop.err # NoError
                       THEN ReconcileResult(loop.err, <<>>, <<>>, <<>>, <<>>, <<>>)
                       ELSE NoResult
    /\ call' = [op |-> op, skill |-> skill, requirement |-> requirement]
    /\ disk' = Mkdir(disk, SkillsDir).fs
    /\ UNCHANGED <<remote, direct, resolution, manifest, lock>>

\* The loop of _reconcile over sorted(resolved).
InstallAll ==
    /\ inst.pc = "installs"
    /\ \E done \in {InstallResolved(SortStrings(DictKeySet(inst.loop.resolved)),
                                    inst.loop.resolved, inst.start.lock, remote,
                                    NoneYet(disk, inst.loop.warnings))} :
          /\ disk' = done.fs
          /\ inst' = [inst EXCEPT !.pc = IF done.err # NoError THEN "returned" ELSE "removals",
                                  !.acc = [done EXCEPT !.fs = <<>>]]
          /\ result' = IF done.err # NoError
                       THEN ReconcileResult(done.err, <<>>, <<>>, <<>>, <<>>, <<>>)
                       ELSE result
    /\ UNCHANGED <<remote, direct, resolution, manifest, lock, call>>

\* The loop of _reconcile over sorted(current_skills).
RemoveAll ==
    /\ inst.pc = "removals"
    /\ \E pruned \in {PruneRemoved(SortStrings(DOMAIN inst.start.lock), inst.loop.resolved,
                                   [inst.acc EXCEPT !.fs = disk])} :
          /\ disk' = pruned.fs
          /\ inst' = [inst EXCEPT !.pc = "manifest", !.acc = [pruned EXCEPT !.fs = <<>>]]
    /\ UNCHANGED <<remote, direct, resolution, manifest, lock, call, result>>

\* self._save_manifest(effective_direct): the file is replaced in one step.
WriteManifest ==
    /\ inst.pc = "manifest"
    /\ manifest' = _save_manifest(inst.loop.effective_direct)
    /\ inst' = [inst EXCEPT !.pc = "lock"]
    /\ UNCHANGED <<remote, direct, resolution, disk, lock, call, result>>

\* self._save_lock(resolved), and the return of the result.
WriteLock ==
    /\ inst.pc = "lock"
    /\ lock' = _save_lock(inst.loop.resolved)
    /\ result' = ReconcileResult(NoError, inst.acc.installed, inst.acc.updated,
                                 inst.acc.removed, inst.acc.unchanged, inst.acc.warnings)
    /\ inst' = [inst EXCEPT !.pc = "returned"]
    /\ UNCHANGED <<remote, direct, resolution, disk, manifest, call>>

\* The process is killed before the phase it was about to enter.
Killed ==
    /\ inst.pc \in {"installs", "removals", "manifest", "lock"}
    /\ inst' = [pc |-> "cut", nr |-> inst.nr, kills |-> inst.kills + 1, at |-> inst.pc,
                loop |-> inst.loop, start |-> inst.start]
    /\ UNCHANGED <<remote, direct, resolution, disk, manifest, lock, call, result>>

NextPhases ==
    \/ \E c \in PhaseCalls : BeginReconcile(c[1], c[2], c[3])
    \/ InstallAll
    \/ RemoveAll
    \/ WriteManifest
    \/ WriteLock
    \/ Killed

SpecPhases == InitPhases /\ [][NextPhases]_vars

\* A call is under way or was killed.
InPhases == inst.pc \in {"installs", "removals", "manifest", "lock", "cut"}

\* The keys the lock file held when the call began that the resolved graph
\* does not hold.
Stale == (DOMAIN inst.start.lock) \ DictKeySet(inst.loop.resolved)

\* The phase the call is before, or was before when it was killed.
PhaseAt == IF inst.pc = "cut" THEN inst.at ELSE inst.pc

\* The phases add up to the call: a call that returns leaves what install
\* or uninstall leaves on the project it began on.
PhasesMatchCall ==
    (inst.pc = "returned") =>
        \E out \in {IF call.op = "install"
                    THEN install(call.skill, call.requirement, remote, inst.start.fs,
                                 inst.start.manifest, inst.start.lock)
                    ELSE uninstall(call.skill, remote, inst.start.fs, inst.start.manifest,
                                   inst.start.lock)} :
           /\ disk = out.fs
           /\ manifest = out.manifest
           /\ lock = out.lock
           /\ result = out.result

\* The call that returned was made after a call of the same arguments was
\* killed between the writing of the manifest and of the lock file, the
\* one time the process was killed.
RecoveredBetweenWrites ==
    /\ inst.pc = "returned"
    /\ ~result.raised
    /\ inst.kills = 1
    /\ inst.before.cut = "lock"
    /\ inst.before.call = call

\* C30: up to the end of the prune loop the manifest and the lock file are
\* as they were; before the prune loop every resolved package is in place
\* and no stale directory is touched; before the writes the stale
\* directories are gone; the manifest is written before the lock file, so
\* a process killed between the two leaves the new manifest next to the old
\* lock file; and the same call, made again and returning, leaves a lock
\* file whose keys are the resolved graph of the manifest, a directory of
\* the locked version for every key of it, and no other package directory.
C30_FixedOrderAndRecovery ==
    /\ (InPhases /\ PhaseAt \in {"installs", "removals", "manifest"}) =>
          manifest = inst.start.manifest /\ lock = inst.start.lock
    /\ (InPhases /\ PhaseAt = "installs") =>
          TreeAt(disk, SkillsDir) = TreeAt(Mkdir(inst.start.fs, SkillsDir).fs, SkillsDir)
    /\ (InPhases /\ PhaseAt = "removals") =>
          /\ \A key \in Stale :
                TreeAt(disk, _skill_dir(key)) = TreeAt(inst.start.fs, _skill_dir(key))
          /\ \A key \in DictKeySet(inst.loop.resolved) :
                /\ SkillDirExists(key)
                /\ MetaVersion(disk, _skill_dir(key)) = DictGet(inst.loop.resolved, key).version
    /\ (InPhases /\ PhaseAt \in {"manifest", "lock"}) =>
          \A key \in Stale : ~SkillDirExists(key)
    /\ (InPhases /\ PhaseAt = "lock") =>
          /\ manifest = inst.loop.effective_direct
          /\ lock = inst.start.lock
    /\ RecoveredBetweenWrites =>
          /\ DOMAIN lock =
                IF DOMAIN manifest = {} THEN {}
                ELSE DictKeySet(resolve_dependency_graph(manifest, remote).selected)
          /\ \A key \in DOMAIN lock :
                /\ SkillDirExists(key)
                /\ MetaVersion(disk, _skill_dir(key)) = lock[key].version
          /\ \A key \in AllKeys : SkillDirExists(key) => key \in DOMAIN lock

\* A call that was killed between the two writes, with a manifest that no
\* longer agrees with the lock file, was made again and returned.
C30_Witness ==
    /\ RecoveredBetweenWrites
    /\ DOMAIN inst.start.lock # DOMAIN lock
    /\ inst.start.manifest = manifest
    /\ result.removed # <<>>

(***************************************************************************)
(* The loop of _reconcile that resolves the direct requirements and drops  *)
(* the direct packages it cannot reach, one round at a time.               *)
(***************************************************************************)

\* The most rounds of the loop a run is followed for.
MaxAttempts == 5

\* The direct requirements the loop starts from, cleaned.
LoopDirects == DropManifests \cup DirectChoices

LoopRepos == DropRepos \cup {CatalogRepo(S) : S \in ManagerCatalogs}

\* The loop at its start: effective_direct = dict(cleaned_direct), no
\* warnings, no resolution attempted.
InitLoop ==
    /\ remote \in LoopRepos
    /\ direct \in LoopDirects
    /\ resolution = NotRun
    /\ ManagerIdle
    /\ inst = [pc |-> "loop", effective_direct |-> direct, warnings |-> <<>>,
               attempts |-> 0, rounds |-> 0, out |-> "none", err |-> NoError,
               resolved |-> <<>>]

\* A round that finds effective_direct empty: resolved = {} and break.
Break ==
    /\ inst.pc = "loop"
    /\ inst.rounds < MaxAttempts
    /\ DOMAIN inst.effective_direct = {}
    /\ inst' = [inst EXCEPT !.pc = "done", !.out = "empty", !.rounds = @ + 1]
    /\ UNCHANGED <<remote, direct, resolution, disk, manifest, lock, call, result>>

\* A round that resolves effective_direct: break with the graph, or the
\* except block, which goes on with fewer direct packages or raises.
Attempt ==
    /\ inst.pc = "loop"
    /\ inst.rounds < MaxAttempts
    /\ DOMAIN inst.effective_direct # {}
    /\ \E r \in {resolve_dependency_graph(inst.effective_direct, remote)} :
          /\ resolution' = r
          /\ IF r.ok
             THEN inst' = [inst EXCEPT !.pc = "done", !.out = "resolved",
                                       !.resolved = r.selected,
                                       !.attempts = @ + 1, !.rounds = @ + 1]
             ELSE \E dropped \in {DropUnreachable(inst.effective_direct, inst.warnings,
                                                  remote, r.err)} :
                     IF dropped.again
                     THEN inst' = [inst EXCEPT !.effective_direct = dropped.effective_direct,
                                               !.warnings = dropped.warnings,
                                               !.attempts = @ + 1, !.rounds = @ + 1]
                     ELSE inst' = [inst EXCEPT !.pc = "done", !.out = "error",
                                               !.err = dropped.err,
                                               !.attempts = @ + 1, !.rounds = @ + 1]
    /\ UNCHANGED <<remote, direct, disk, manifest, lock, call, result>>

NextLoop == Break \/ Attempt

SpecLoop == InitLoop /\ [][NextLoop]_vars

InLoop == inst.pc \in {"loop", "done"} /\ inst.out \in {"none", "empty", "resolved", "error"}

\* The rounds of the loop come to what ResolveEffective returns or raises.
LoopMatchesReconcile ==
    (InLoop /\ inst.pc = "done") =>
        \A whole \in {ResolveEffective(direct, <<>>, remote)} :
            /\ whole.err = inst.err
            /\ whole.resolved = inst.resolved
            /\ whole.effective_direct = inst.effective_direct
            /\ whole.warnings = inst.warnings

LoopSize(d) == Cardinality(DOMAIN d)

\* The loop has ended in one of its three ways.
LoopEnded ==
    /\ inst.pc = "done"
    /\ \/ inst.out = "resolved" /\ resolution.ok /\ inst.resolved = resolution.selected
                                /\ DOMAIN inst.effective_direct # {}
       \/ inst.out = "empty" /\ DOMAIN inst.effective_direct = {} /\ inst.resolved = <<>>
       \/ inst.out = "error" /\ inst.err # NoError

\* C31: the loop of _reconcile that resolves and falls back terminates.
\* Every round ends the loop or goes on with a proper subset of the direct
\* packages it had, their specifiers as they were; the resolutions attempted
\* and the direct packages left never add up to more than the n direct
\* packages the loop started with and one, so that at most n + 1
\* resolutions are attempted and a loop that has not ended always has its
\* next round to make; and a loop that has ended has ended with the resolved
\* graph, with the empty graph of no direct package left, or with an error.
C31_LoopTerminates ==
    /\ [][\/ inst'.pc = "done"
          \/ /\ DOMAIN inst'.effective_direct \subseteq DOMAIN inst.effective_direct
             /\ DOMAIN inst'.effective_direct # DOMAIN inst.effective_direct
             /\ \A key \in DOMAIN inst'.effective_direct :
                   inst'.effective_direct[key] = inst.effective_direct[key]]_vars
    /\ [](/\ inst.attempts + LoopSize(inst.effective_direct) <= LoopSize(direct) + 1
          /\ inst.attempts <= LoopSize(direct) + 1
          /\ inst.rounds <= LoopSize(direct) + 1
          /\ inst.pc = "loop" => inst.rounds < MaxAttempts
          /\ inst.pc = "done" => LoopEnded)

\* The loop dropped direct packages in two rounds and resolved the rest in
\* a third one.
C31_Witness ==
    /\ LoopEnded
    /\ inst.out = "resolved"
    /\ inst.attempts >= 3
    /\ LoopSize(inst.effective_direct) + 2 <= LoopSize(direct)

(***************************************************************************)
(* The search of resolve_dependency_graph, one call of _search and one     *)
(* round of its loop over the candidates at a time.  The stack holds a     *)
(* frame for every call of _search that is in its loop.                    *)
(***************************************************************************)

\* a/b and c/d depend on each other: a/b 2.0.0 and 1.0.0 on c/d, c/d 2.0.0
\* on a/b below 2.0.0 and c/d 1.0.0 on a/b; t/e 1.0.0 depends on both.
CycleRepo ==
    ListingRepo(<<SkillRelease(KeyAB, V200, <<DependencySpec(KeyCD, None, None)>>, Url),
                  SkillRelease(KeyAB, V100, <<DependencySpec(KeyCD, None, None)>>, Url)>>,
                <<SkillRelease(KeyCD, V200, <<DependencySpec(KeyAB, Below2Pin, None)>>, Url),
                  SkillRelease(KeyCD, V100, <<DependencySpec(KeyAB, None, None)>>, Url)>>,
                <<SkillRelease(KeyTE, V100, <<DependencySpec(KeyAB, None, None),
                                              DependencySpec(KeyCD, None, None)>>, Url)>>)

\* Every release of a/b depends on a/b itself: 2.0.0 on ^1.0.0 and 1.0.0 on
\* ^2.0.0; c/d 1.0.0 depends on c/d ^1.0.0 and t/e 1.0.0 on a/b.
SelfRepo ==
    ListingRepo(<<SkillRelease(KeyAB, V200, <<DependencySpec(KeyAB, Caret1, None)>>, Url),
                  SkillRelease(KeyAB, V100, <<DependencySpec(KeyAB, Caret2, None)>>, Url)>>,
                <<SkillRelease(KeyCD, V100, <<DependencySpec(KeyCD, Caret1, None)>>, Url)>>,
                <<SkillRelease(KeyTE, V100, <<DependencySpec(KeyAB, None, None)>>, Url)>>)

\* A cycle of three: a/b depends on c/d, c/d on t/e and t/e on a/b, the
\* releases 2.0.0 asking for ^1.0.0 of the next.
RingRepo ==
    ListingRepo(<<SkillRelease(KeyAB, V200, <<DependencySpec(KeyCD, Caret1, None)>>, Url),
                  SkillRelease(KeyAB, V100, <<DependencySpec(KeyCD, None, None)>>, Url)>>,
                <<SkillRelease(KeyCD, V200, <<DependencySpec(KeyTE, Caret1, None)>>, Url),
                  SkillRelease(KeyCD, V100, <<DependencySpec(KeyTE, None, None)>>, Url)>>,
                <<SkillRelease(KeyTE, V200, <<DependencySpec(KeyAB, Caret1, None)>>, Url),
                  SkillRelease(KeyTE, V100, <<DependencySpec(KeyAB, None, None)>>, Url)>>)

SearchRepos == OrderRepos \cup {CycleRepo, SelfRepo, RingRepo}

\* The most steps a search is followed for.
MaxSearchSteps == 60

NoPick == [key |-> <<>>, version |-> <<>>]

\* The arguments of a call of _search.
SearchArgs(selected, constraints_map, pending_keys) ==
    [selected |-> selected, constraints_map |-> constraints_map, pending_keys |-> pending_keys]

\* resolve_dependency_graph at its call of _search.
InitSearch ==
    /\ remote \in SearchRepos
    /\ direct \in OrderDirects
    /\ resolution = NotRun
    /\ ManagerIdle
    /\ inst = [pc |-> "enter", stack |-> <<>>, errs |-> <<>>, steps |-> 0,
               args |-> SearchArgs(<<>>, DirectConstraints(SortStrings(DOMAIN direct), direct),
                                   SortStrings(DOMAIN direct)),
               ret |-> SearchResult("running", <<>>, <<>>, <<>>, NoError)]

\* What a call of _search that returns does to the search: the result of the
\* call that has no caller is the result of the search, a solution or an
\* error is passed on by every caller, and None sends the caller into the
\* next round of its loop.
Returns(s, solved) ==
    IF solved.st # "none" \/ s.stack = <<>>
    THEN [s EXCEPT !.pc = "done", !.ret = solved, !.errs = solved.errs,
                   !.steps = @ + 1]
    ELSE [s EXCEPT !.pc = "try", !.errs = solved.errs, !.steps = @ + 1]

\* A call of _search down to its loop over the candidates.
EnterSearch ==
    /\ inst.pc = "enter"
    /\ inst.steps < MaxSearchSteps
    /\ \E rv \in {Revalidate(DictKeys(inst.args.selected), inst.args.selected,
                             inst.args.constraints_map, Dedupe(inst.args.pending_keys))} :
          IF rv.raise
          THEN inst' = Returns(inst, SearchResult("raise", <<>>, <<>>, inst.errs,
                                                  SkilldockError("invalidreq", <<>>)))
          ELSE IF rv.pending = <<>>
          THEN inst' = Returns(inst, SearchResult("solved", rv.selected,
                                                  inst.args.constraints_map, inst.errs, NoError))
          ELSE \E cand \in {_candidate_releases(
                                rv.pending[1],
                                ConstraintsGet(inst.args.constraints_map, rv.pending[1]),
                                remote)} :
                  IF cand.err # NoError
                  THEN inst' = Returns(inst, SearchResult("none", <<>>, <<>>,
                                                          Append(inst.errs, cand.err), NoError))
                  ELSE inst' = [inst EXCEPT
                                   !.pc = "try",
                                   !.steps = @ + 1,
                                   !.stack = Append(@, [selected_mut |-> rv.selected,
                                                        constraints_map |->
                                                            inst.args.constraints_map,
                                                        key |-> rv.pending[1],
                                                        rest |-> Tail(rv.pending),
                                                        candidates |-> cand.rels,
                                                        pick |-> NoPick])]
    /\ UNCHANGED <<remote, direct, resolution, disk, manifest, lock, call, result>>

\* A round of the loop over the candidates of the call on top of the stack:
\* the next candidate is selected and _search called, or there is none left
\* and the call returns None.
TryCandidate ==
    /\ inst.pc = "try"
    /\ inst.steps < MaxSearchSteps
    /\ \E top \in {inst.stack[Len(inst.stack)]} :
          IF top.candidates = <<>>
          THEN inst' = Returns([inst EXCEPT !.stack = SubSeq(@, 1, Len(@) - 1)],
                               SearchResult("none", <<>>, <<>>, inst.errs, NoError))
          ELSE \E next \in {AddDependencies(top.candidates[1].dependencies,
                                            SourceOf(top.key, top.candidates[1].version),
                                            DictSet(top.selected_mut, top.key,
                                                    top.candidates[1]),
                                            top.constraints_map, top.rest)} :
                  IF next.raise
                  THEN inst' = Returns(inst, SearchResult("raise", <<>>, <<>>, inst.errs,
                                                          SkilldockError("invalidreq", top.key)))
                  ELSE inst' = [inst EXCEPT
                                   !.pc = "enter",
                                   !.steps = @ + 1,
                                   !.stack[Len(inst.stack)] =
                                       [top EXCEPT !.candidates = Tail(@),
                                                   !.pick = [key |-> top.key,
                                                             version |->
                                                                 top.candidates[1].version]],
                                   !.args = SearchArgs(next.selected, next.constraints,
                                                       next.pending)]
    /\ UNCHANGED <<remote, direct, resolution, disk, manifest, lock, call, result>>

NextSearch == EnterSearch \/ TryCandidate

SpecSearch == InitSearch /\ [][NextSearch]_vars

InSearch == inst.pc \in {"enter", "try", "done"}

\* The steps of the search come to what _search returns.
SearchMatchesResolve ==
    (InSearch /\ inst.pc = "done") =>
        inst.ret = _search(remote, <<>>,
                           DirectConstraints(SortStrings(DOMAIN direct), direct),
                           SortStrings(DOMAIN direct), <<>>)

\* The releases the search selected on the way to where it is: one for
\* every call of _search that is in a round of its loop.
PathPicks == {i \in 1..Len(inst.stack) : inst.stack[i].pick # NoPick}

\* The releases the repository lists, all keys together.
RECURSIVE CountReleases(_, _)
CountReleases(repo, keys) ==
    IF keys = {} THEN 0
    ELSE Let(CHOOSE key \in keys : TRUE, LAMBDA key :
             Len(repo[key].releases) + CountReleases(repo, keys \ {key}))

\* The constraints of the map small are where the lists of large start.
GrownFrom(small, large) ==
    \A key \in AllKeys :
        /\ Len(ConstraintsGet(small, key)) <= Len(ConstraintsGet(large, key))
        /\ ConstraintsGet(small, key)
               = SubSeq(ConstraintsGet(large, key), 1, Len(ConstraintsGet(small, key)))

\* The versions the call of frame has still to try or is trying.
InHand(frame) ==
    {frame.candidates[c].version : c \in 1..Len(frame.candidates)}
        \cup (IF frame.pick = NoPick THEN {} ELSE {frame.pick.version})

\* C32: the search of resolve_dependency_graph terminates, with cyclic
\* dependencies and with selected releases that are unselected and queued
\* again.  On the path of the search no release, a key at a version, is
\* selected twice, so that the path is no longer than the releases listed;
\* the constraints only grow along the path; a key that is searched again,
\* after its selected version was unselected, has that version among its
\* candidates no more; a search that has not ended always has its next step
\* to make, and a search that ended returned a solution, None or an error.
C32_SearchTerminates ==
    InSearch =>
        /\ \A i, j \in PathPicks : inst.stack[i].pick = inst.stack[j].pick => i = j
        /\ Cardinality(PathPicks) <= CountReleases(remote, AllKeys)
        /\ \A i, j \in 1..Len(inst.stack) :
              i < j =>
                 /\ GrownFrom(inst.stack[i].constraints_map, inst.stack[j].constraints_map)
                 /\ inst.stack[i].key = inst.stack[j].key =>
                       inst.stack[i].pick.version \notin InHand(inst.stack[j])
        /\ inst.pc = "enter" =>
              \A i \in 1..Len(inst.stack) :
                 GrownFrom(inst.stack[i].constraints_map, inst.args.constraints_map)
        /\ inst.pc = "try" => inst.stack # <<>>
        /\ inst.pc # "done" => inst.steps < MaxSearchSteps
        /\ inst.pc = "done" => inst.ret.st \in {"solved", "none", "raise"}

\* A search among packages that depend on each other returned a solution,
\* having selected a key, unselected it for a constraint that a later
\* release brought, and selected it again at another version.
C32_Witness ==
    /\ InSearch /\ inst.pc = "done" /\ inst.ret.st = "solved"
    /\ remote \in {CycleRepo, SelfRepo, RingRepo}
    /\ \E i, j \in PathPicks :
          /\ i < j
          /\ inst.stack[i].pick.key = inst.stack[j].pick.key
          /\ DictGet(inst.ret.selected, inst.stack[j].pick.key).version
                 = inst.stack[j].pick.version

(***************************************************************************)
(* Resolution against repositories in which a release that is selected     *)
(* first and unselected later has dependencies of its own.                 *)
(***************************************************************************)

\* a/b 2.0.0 depends on t/e and a/b 1.0.0 on nothing; c/d 1.0.0 asks for
\* a/b below 2.0.0.
OrphanRepo ==
    ListingRepo(<<SkillRelease(KeyAB, V200, <<DependencySpec(KeyTE, None, None)>>, Url),
                  SkillRelease(KeyAB, V100, <<>>, Url)>>,
                <<SkillRelease(KeyCD, V100, <<DependencySpec(KeyAB, Below2Pin, None)>>, Url)>>,
                <<SkillRelease(KeyTE, V100, <<>>, Url)>>)

ReachRepos == SearchRepos \cup {OrphanRepo}

InitReach ==
    /\ remote \in ReachRepos
    /\ direct \in OrderDirects
    /\ resolution = NotRun
    /\ ManagerIdle
    /\ inst = NoInstall

SpecReach == InitReach /\ [][NextResolve]_vars

\* The keys the selected releases of the solution declare as dependencies.
DeclaredKeys ==
    UNION {{Selected[i].val.dependencies[d].key :
               d \in 1..Len(Selected[i].val.dependencies)} : i \in 1..Len(Selected)}

\* The sources of the requirements the solution returns: "direct" and a
\* release, key@version, for every dependency edge.
SelectedSources ==
    {DirectSource} \cup {SourceOf(Selected[i].key, Selected[i].val.version) :
                            i \in 1..Len(Selected)}

\* C33 as stated: every key of a returned solution is a direct requirement
\* or a dependency that a selected release of the solution declares, and
\* every returned requirement comes from the direct requirements or from a
\* selected release.
C33_SolutionIsReachable ==
    (Resolved /\ resolution.ok) =>
        /\ \A i \in 1..Len(Selected) :
              Selected[i].key \in (DOMAIN direct) \cup DeclaredKeys
        /\ \A key \in AllKeys :
              \A req \in RequirementSet(key) : req.source \in SelectedSources

\* What holds of every solution: a key of it is a direct requirement or a
\* dependency of a release that the search selected at some point, the
\* source of a requirement that is returned.
ReachableFromSomePick ==
    (Resolved /\ resolution.ok) =>
        \A i \in 1..Len(Selected) :
            \/ Selected[i].key \in DOMAIN direct
            \/ \E req \in RequirementSet(Selected[i].key) : req.source # DirectSource

(***************************************************************************)
(* The lock file against the directories, after a reconcile that returns.  *)
(***************************************************************************)

\* The directory of key holds the installed-metadata of the version.
InstalledAt(fs, key, version) ==
    /\ Exists(fs, _skill_dir(key))
    /\ MetaVersion(fs, _skill_dir(key)) # <<>>
    /\ compare_versions(MetaVersion(fs, _skill_dir(key)), version) = 0

KeyUp == <<".", ".", "/", "x">>

ConfineKeys == {KeyAB, KeyABC, KeyCD, KeyUp}

\* The repository that serves release 1.0.0 of every key, the one of a/b
\* with the dependencies deps and the others without dependencies.
ConfineRepo(deps) ==
    [key \in ConfineKeys |->
        Serving(<<SkillRelease(key, V100, IF key = KeyAB THEN deps ELSE <<>>, Url)>>)]

ConfineRepos ==
    { ConfineRepo(<<>>),
      ConfineRepo(<<DependencySpec(KeyUp, None, None)>>),
      ConfineRepo(<<DependencySpec(KeyABC, None, None)>>) }

InitConfine ==
    /\ remote \in ConfineRepos
    /\ direct = <<>>
    /\ resolution = NotRun
    /\ ManagerIdle
    /\ inst = NoInstall

NextConfine ==
    \/ \E skill \in ConfineKeys : Install(skill, None)
    \/ \E skill \in ConfineKeys : Uninstall(skill)

SpecConfine == InitConfine /\ [][NextConfine]_vars

StrictlyInside(p, base) == IsPrefix(base, p) /\ p # base

\* The keys a reconcile installed, updated or removed.
Touched(res) == Items(res.installed) \cup Items(res.updated) \cup Items(res.removed)

\* C35 as stated: whatever key reaches the installation or the removal,
\* from the argument of install, from the manifest and the lock file of an
\* earlier call or from a dependency of a release, the directory that is
\* created, replaced or deleted for it lies strictly inside skills_dir, and
\* so does everything that is deleted; nothing is created outside
\* skills_dir.
C35_ConfinedToSkillsDir ==
    [][Returned' =>
          /\ \A key \in Touched(result') : StrictlyInside(_skill_dir(key), SkillsDir)
          /\ \A n \in disk' \ disk : IsPrefix(SkillsDir, n.path)
          /\ \A n \in disk \ disk' : StrictlyInside(n.path, SkillsDir)]_vars

\* The namespace and the slug of key are plain names: not "..", and without "/".
PlainKey(key) ==
    /\ Namespace(key) # <<".", ".">>
    /\ Slug(key) # <<".", ".">>
    /\ ~HasChar(Slug(key), "/")

\* What holds: the directory of a key with a plain namespace and a plain
\* slug lies two levels below skills_dir.
PlainKeysConfined ==
    \A key \in ConfineKeys :
        PlainKey(key) => /\ StrictlyInside(_skill_dir(key), SkillsDir)
                         /\ Len(_skill_dir(key)) = Len(SkillsDir) + 2

(***************************************************************************)
(* The manager against a repository that stops serving packages between    *)
(* two calls.                                                              *)
(***************************************************************************)

GoneRepos == {SiblingRepo, CatalogRepo({1, 2, 4, 5, 7})}

GoneInstalls == {KeyAB, KeyCD, KeyTE, KeyAE}

\* The keys the repository may stop serving.
GoneKeys == {KeyAB, KeyCD}

InitGone ==
    /\ remote \in GoneRepos
    /\ direct = <<>>
    /\ resolution = NotRun
    /\ ManagerIdle
    /\ inst = NoInstall

\* The repository stops serving key: its list endpoint answers 404 from now on.
Withdraw(key) ==
    /\ remote[key].list = "ok"
    /\ remote' = [remote EXCEPT ![key] = Serving(<<>>)]
    /\ UNCHANGED <<direct, resolution, disk, manifest, lock, call, result, inst>>

NextGone ==
    \/ \E skill \in GoneInstalls : Install(skill, None)
    \/ \E skill \in GoneInstalls : Uninstall(skill)
    \/ \E key \in GoneKeys : Withdraw(key)

SpecGone == InitGone /\ [][NextGone]_vars

\* C36 as stated: a call of install or uninstall for a package removes the
\* directory of no other package that the manifest lists as a direct
\* requirement when the call is made, whether or not the reconcile drops
\* that package with a warning for being out of reach.
C36_DroppedStaysOnDisk ==
    [][Returned' =>
          \A key \in DOMAIN manifest :
              (key # call'.key /\ Exists(disk, _skill_dir(key)))
                  => Exists(disk', _skill_dir(key))]_vars

\* What holds: a direct package of the manifest that is on disk when
\* another package is installed or uninstalled is removed only if the
\* reconcile dropped it, warning of it, or left it out of the lock file.
RemovedOnlyIfDropped ==
    [][Returned' =>
          \A key \in DOMAIN manifest :
              (key # call'.key /\ Exists(disk, _skill_dir(key))
                  /\ ~Exists(disk', _skill_dir(key)))
                  => /\ key \in WarnedKeys'
                     /\ key \notin DOMAIN manifest'
                     /\ key \notin DOMAIN lock']_vars

(***************************************************************************)
(* Calls that raise.  The repositories make every way of raising happen:   *)
(* an exact-pin conflict, a requirement no release satisfies, a download   *)
(* the server refuses, an archive without a marker file and an archive     *)
(* with an entry outside the extraction root.                              *)
(***************************************************************************)

RaiseRepos ==
    { WithUrl(WithSibling({3, 4, 5}, Url), KeyCD, V200, UrlDown),
      WithUrl(WithSibling({3, 4, 5}, Url), KeyCD, V200, UrlNoMarker),
      WithUrl(WithSibling({2, 4, 5}, Url), KeyCD, V200, UrlUnsafe),
      WithUrl(WithSibling({1, 4, 5, 7}, Url), KeyTE, V100, UrlDown) }

InitRaise ==
    /\ remote \in RaiseRepos
    /\ direct = <<>>
    /\ resolution = NotRun
    /\ ManagerIdle
    /\ inst = NoInstall

SpecRaise == InitRaise /\ [][Next]_vars

\* The errors resolve_dependency_graph raises.
ResolutionErrors == {"conflict", "norelease", "notfound", "invalidreq", "listerror"}

\* The package directories of a file system: what lies inside the skills
\* directory, the directory of temporary files apart.
PackageNodes(fs) ==
    {n \in fs : StrictlyInside(n.path, SkillsDir) /\ ~IsPrefix(TempDir, n.path)}

\* C37: a call that raises leaves the manifest and the lock file as they
\* were; a call that raises during the resolution also leaves every package
\* directory as it was.
C37_RaiseLeavesFilesAlone ==
    [][result'.raised =>
          /\ manifest' = manifest
          /\ lock' = lock
          /\ (call'.reconciled /\ result'.err.kind \in ResolutionErrors)
                => PackageNodes(disk') = PackageNodes(disk)
          /\ ~call'.reconciled => disk' = disk]_vars

\* A call raised on a rejected archive or a refused download after packages
\* had been installed and recorded.
C37_Witness ==
    /\ call # NoCall /\ call.reconciled
    /\ result.raised
    /\ result.err.kind \in {"nomarker", "invalidpath", "http"}
    /\ manifest # <<>>
    /\ lock # <<>>
    /\ \E key \in DOMAIN call.direct : key \notin DOMAIN manifest

(***************************************************************************)
(* Uninstalling a package that other packages depend on.  In the first     *)
(* repository a/b 2.0.0 needs c/d ^2 and a/b 1.0.0 needs c/d 1.0.0; in the *)
(* second t/e and a/b share the dependency c/d; in the third the download  *)
(* of c/d 2.0.0 is refused, so that a call may raise after it installed    *)
(* a/b.                                                                    *)
(***************************************************************************)

KeepRepos ==
    { CatalogRepo({2, 3, 4, 5}),
      CatalogRepo({1, 2, 4, 5, 7}),
      SiblingRepo,
      WithUrl(WithSibling({3, 4, 5}, Url), KeyCD, V200, UrlDown) }

InitKeep ==
    /\ remote \in KeepRepos
    /\ direct = <<>>
    /\ resolution = NotRun
    /\ ManagerIdle
    /\ inst = NoInstall

SpecKeep == InitKeep /\ [][Next]_vars

\* The step is a call of uninstall that reconciled and returned.
Uninstalled == call'.op = "uninstall" /\ call'.reconciled /\ ~result'.raised

\* The packages with a directory in the file system.
OnDisk(fs) == {key \in AllKeys : Exists(fs, _skill_dir(key))}

\* The keys of the graph resolved for the direct requirements d.
ResolvedKeys(d, repo) == DictKeySet(ResolveEffective(d, <<>>, repo).resolved)

V100Build == V100 \o <<"+", "b">>

EqualRepos ==
    { SiblingRepo, CatalogRepo({2, 4, 8}), CatalogRepo({2, 4, 7}), CatalogRepo({4, 8}) }
    \cup {CatalogRepo(S) : S \in ManagerCatalogs}

EqualDirects ==
    DirectChoices
    \cup { (KeyAB :> Latest) @@ (KeyCD :> V100Build),
           (KeyAB :> Latest) @@ (KeyCD :> <<"=">> \o V10),
           (KeyCD :> V100) @@ (KeyTE :> Latest),
           (KeyCD :> V10) @@ (KeyTE :> Latest) }

InitEqual ==
    /\ remote \in EqualRepos
    /\ direct \in EqualDirects
    /\ resolution = NotRun
    /\ ManagerIdle
    /\ inst = NoInstall

SpecEqual == InitEqual /\ [][NextResolve]_vars

\* The version an exact specifier names, none for another specifier.
ExactOf(specifier) ==
    IF _extract_exact_version(specifier).has
    THEN {_extract_exact_version(specifier).rhs} ELSE {}

\* The exact pins on key: that of the direct requirement and those of the
\* dependencies the releases of the repository declare.
PinsOn(key) ==
    (IF key \in DOMAIN direct THEN ExactOf(direct[key]) ELSE {})
    \cup UNION { UNION { UNION { UNION { ExactOf(DepSpecs(remote[k].releases[i].dependencies[d])[s]) :
                     s \in 1..Len(DepSpecs(remote[k].releases[i].dependencies[d])) } :
                 d \in {e \in 1..Len(remote[k].releases[i].dependencies) :
                           remote[k].releases[i].dependencies[e].key = key} } :
             i \in 1..Len(remote[k].releases) } :
         k \in DOMAIN remote }

PinsAgree(key) == \A v, w \in PinsOn(key) : compare_versions(v, w) = 0

\* C39: pins on one key that compare equal under compare_versions are not
\* a conflict, and the key resolves to the version they name.
C39_EqualPinsDoNotConflict ==
    Resolved =>
        /\ (~resolution.ok /\ resolution.err.kind = "conflict")
              => ~PinsAgree(resolution.err.key)
        /\ resolution.ok =>
              \A key \in DictKeySet(Selected) :
                  PinsAgree(key) =>
                      \A v \in PinsOn(key) : compare_versions(SelectedVersion(key), v) = 0

\* The conflict is raised only when two pins on the key are written
\* differently.
ConflictOnDistinctSpellings ==
    (Resolved /\ ~resolution.ok /\ resolution.err.kind = "conflict")
        => Cardinality(PinsOn(resolution.err.key)) > 1

====
